---- MODULE Spec2Model ----
(***************************************************************************)
(* Model of the yt-translate-transcription browser extension:              *)
(*   - smartChunkText / translateText   (src/extension/translation/utils.ts)*)
(*   - getYouTubeTranscript and its two retrieval paths, and the message   *)
(*     router                        (src/extension/content.ts)            *)
(* A JavaScript string is modelled as a sequence of one-character strings, *)
(* so that length, trim, split and regular-expression matching are         *)
(* computed the way the code computes them.                                *)
(***************************************************************************)
EXTENDS Integers, Sequences, FiniteSets, TLC

\* ------------------------------------------------------------------------
\* Bounds of the model.
\* ------------------------------------------------------------------------

\* Longest input text given to smartChunkText.
MaxLen == 8

\* utils.ts:36 sets MAX_CHUNK_SIZE = 500.  smartChunkText only compares
\* lengths with it, so the model scales it down to a size that texts of
\* MaxLen characters exceed.
MAX_CHUNK_SIZE == 3

\* ------------------------------------------------------------------------
\* Strings.
\* ------------------------------------------------------------------------

\* The characters input texts are made of: a letter, a space, a sentence end.
Alphabet == {"a", " ", "."}

\* What String.prototype.trim and the regular expression class \s strip.
Whitespace == {" ", "\n", "\t"}

\* The sentence terminators of the regular expression in smartChunkText.
Punct == {".", "!", "?"}

RECURSIVE SeqsUpTo(_, _)
SeqsUpTo(S, n) ==
  IF n = 0 THEN {<<>>}
  ELSE LET shorter == SeqsUpTo(S, n - 1)
       IN shorter \cup {Append(s, c) : s \in {t \in shorter : Len(t) = n - 1}, c \in S}

Texts == SeqsUpTo(Alphabet, MaxLen)

Min(S) == CHOOSE x \in S : \A y \in S : x <= y
Max(S) == CHOOSE x \in S : \A y \in S : y <= x

\* String.prototype.trim
Trim(s) ==
  LET keep == {i \in 1..Len(s) : s[i] \notin Whitespace}
  IN IF keep = {} THEN <<>> ELSE SubSeq(s, Min(keep), Max(keep))

\* String.prototype.split(sep) for a one-character separator: the pieces
\* between separators, empty pieces included; never an empty array.
RECURSIVE Split(_, _)
Split(s, sep) ==
  LET at == {i \in 1..Len(s) : s[i] = sep}
  IN IF at = {} THEN <<s>>
     ELSE <<SubSeq(s, 1, Min(at) - 1)>> \o Split(SubSeq(s, Min(at) + 1, Len(s)), sep)

\* String.prototype.includes
Includes(s, part) ==
  \E i \in 0..(Len(s) - Len(part)) : SubSeq(s, i + 1, i + Len(part)) = part

\* A string or null: what URLSearchParams.get, getAttribute and textContent
\* return.
Null   == [isNull |-> TRUE,  s |-> <<>>]
Str(x) == [isNull |-> FALSE, s |-> x]

\* JavaScript truthiness of a string or null.
Truthy(v) == ~v.isNull /\ v.s # <<>>

\* Array.prototype.join(sep) on an array of strings.
RECURSIVE Join(_, _)
Join(parts, sep) ==
  IF Len(parts) = 0 THEN <<>>
  ELSE IF Len(parts) = 1 THEN parts[1]
  ELSE parts[1] \o sep \o Join(Tail(parts), sep)

\* text.match(/[^.!?]+[.!?]+/g): the successive leftmost matches, each the
\* longest run of non-terminators followed by the longest run of
\* terminators; <<>> stands for the null the call returns without a match.
RECURSIVE MatchSentences(_)
MatchSentences(s) ==
  LET body == {i \in 1..Len(s) : s[i] \notin Punct}
  IN IF body = {} THEN <<>>
     ELSE LET i    == Min(body)
              ends == {j \in i..Len(s) : s[j] \in Punct}
          IN IF ends = {} THEN <<>>
             ELSE LET j    == Min(ends)
                      rest == {k \in j..Len(s) : s[k] \notin Punct}
                      k    == IF rest = {} THEN Len(s) + 1 ELSE Min(rest)
                  IN <<SubSeq(s, i, k - 1)>> \o MatchSentences(SubSeq(s, k, Len(s)))

\* ------------------------------------------------------------------------
\* smartChunkText (utils.ts:45-94)
\* ------------------------------------------------------------------------

\* utils.ts:48
SplitSentences(text) ==
  IF MatchSentences(text) = <<>> THEN <<text>> ELSE MatchSentences(text)

\* utils.ts:70-79: one iteration of the word loop; st = [chunks, longChunk].
WordStep(st, word) ==
  IF Len(st.longChunk \o word) > MAX_CHUNK_SIZE
  THEN [chunks    |-> IF st.longChunk # <<>>
                      THEN Append(st.chunks, Trim(st.longChunk))
                      ELSE st.chunks,
        longChunk |-> word \o <<" ">>]
  ELSE [chunks    |-> st.chunks,
        longChunk |-> st.longChunk \o word \o <<" ">>]

RECURSIVE WordLoop(_, _)
WordLoop(st, words) ==
  IF words = <<>> THEN st ELSE WordLoop(WordStep(st, Head(words)), Tail(words))

\* utils.ts:61-83: the sentence is longer than the maximum.
\* st = [chunks, currentChunk].
SplitLongSentence(st, trimmedSentence) ==
  LET flushed == IF st.currentChunk # <<>>
                 THEN Append(st.chunks, Trim(st.currentChunk))
                 ELSE st.chunks
      pending == IF st.currentChunk # <<>> THEN <<>> ELSE st.currentChunk
      after   == WordLoop([chunks |-> flushed, longChunk |-> <<>>],
                          Split(trimmedSentence, " "))
  IN [chunks       |-> after.chunks,
      currentChunk |-> IF after.longChunk # <<>> THEN after.longChunk ELSE pending]

\* utils.ts:52-87: one iteration of the sentence loop.
SentenceStep(st, sentence) ==
  LET trimmedSentence == Trim(sentence)
  IN IF /\ st.currentChunk # <<>>
        /\ Len(st.currentChunk) + Len(trimmedSentence) + 1 > MAX_CHUNK_SIZE
     THEN [chunks       |-> Append(st.chunks, Trim(st.currentChunk)),
           currentChunk |-> trimmedSentence]
     ELSE IF Len(trimmedSentence) > MAX_CHUNK_SIZE
     THEN SplitLongSentence(st, trimmedSentence)
     ELSE [chunks       |-> st.chunks,
           currentChunk |-> st.currentChunk
                              \o (IF st.currentChunk # <<>> THEN <<" ">> ELSE <<>>)
                              \o trimmedSentence]

RECURSIVE SentenceLoop(_, _)
SentenceLoop(st, sentences) ==
  IF sentences = <<>> THEN st
  ELSE SentenceLoop(SentenceStep(st, Head(sentences)), Tail(sentences))

\* utils.ts:46-91: the chunks array when the return statement is reached.
LoopChunks(text) ==
  LET st == SentenceLoop([chunks |-> <<>>, currentChunk |-> <<>>],
                         SplitSentences(text))
  IN IF st.currentChunk # <<>>
     THEN Append(st.chunks, Trim(st.currentChunk))
     ELSE st.chunks

\* A return statement that forgets the fallback.
ReturnChunksNoFallback(chunks, text) == chunks

\* utils.ts:93
ReturnChunks(chunks, text) == IF Len(chunks) > 0 THEN chunks ELSE <<text>>

smartChunkText(text) == ReturnChunks(LoopChunks(text), text)

\* ------------------------------------------------------------------------
\* JSON values, and what JavaScript does with them.
\* ------------------------------------------------------------------------
JNull      == [t |-> "null",      e |-> <<>>, s |-> <<>>]
JUndefined == [t |-> "undefined", e |-> <<>>, s |-> <<>>]
JStr(str)  == [t |-> "string",    e |-> <<>>, s |-> str]
JArr(elts) == [t |-> "array",     e |-> elts, s |-> <<>>]

\* v[0] throws a TypeError exactly when v is null or undefined.
IndexThrows(v) == v.t \in {"null", "undefined"}

\* v[0] when it does not throw: the first element of an array, the first
\* character of a string, undefined otherwise.
At0(v) ==
  IF v.t = "array" /\ Len(v.e) > 0 THEN v.e[1]
  ELSE IF v.t = "string" /\ Len(v.s) > 0 THEN JStr(<<v.s[1]>>)
  ELSE JUndefined

\* Array.prototype.join turns null and undefined elements into "".
JoinString(v) == IF v.t = "string" THEN v.s ELSE <<>>

\* ------------------------------------------------------------------------
\* translateText (utils.ts:103-133)
\* ------------------------------------------------------------------------

\* Longest text given to translateText.
MaxTranslateLen == 6

\* Texts with two spaces between words that are as long as a chunk may be.
SpacedLongWords ==
  { <<"a", "a", "a", " ", " ", "a", "a", "a">>,
    <<"a", "a", "a", " ", " ", "a", "a", ".">> }

TranslateTexts == SeqsUpTo(Alphabet, MaxTranslateLen) \cup SpacedLongWords

TargetLangs == {"es", "fr"}

\* The bodies the translate endpoint answers with: two well-formed ones,
\* [[["x"]]] and [[["y"]]], and null, [], [[]], [[[]]].
TranslateBodies ==
  { JArr(<<JArr(<<JArr(<<JStr(<<"x">>)>>)>>)>>),
    JArr(<<JArr(<<JArr(<<JStr(<<"y">>)>>)>>)>>),
    JNull,
    JArr(<<>>),
    JArr(<<JArr(<<>>)>>),
    JArr(<<JArr(<<JArr(<<>>)>>)>>) }

\* encodeURIComponent on the characters of the model.
EncodeChar(c) ==
  CASE c = " "  -> <<"%", "2", "0">>
    [] c = "\n" -> <<"%", "0", "A">>
    [] c = "\t" -> <<"%", "0", "9">>
    [] c = "?"  -> <<"%", "3", "F">>
    [] OTHER    -> <<c>>

RECURSIVE encodeURIComponent(_)
encodeURIComponent(s) ==
  IF s = <<>> THEN <<>> ELSE EncodeChar(Head(s)) \o encodeURIComponent(Tail(s))

\* utils.ts:114-117: the request of one chunk.
TranslateRequest(chunk, tl) == [q |-> encodeURIComponent(chunk), tl |-> tl]

\* All the requests at once, as chunks.map(fetch) would issue them.
IssueAllFetches(reqs, chs, i, tl) ==
  IF i = 1 THEN [k \in 1..Len(chs) |-> TranslateRequest(chs[k], tl)] ELSE reqs

\* utils.ts:113-117: iteration i of the loop issues the fetch of chunk i.
IssueFetch(reqs, chs, i, tl) == Append(reqs, TranslateRequest(chs[i], tl))

\* utils.ts:120: data[0][0][0] throws
SegmentThrows(data) ==
  \/ IndexThrows(data)
  \/ IndexThrows(At0(data))
  \/ IndexThrows(At0(At0(data)))

\* utils.ts:120: data[0][0][0]
FirstSegment(data) == At0(At0(At0(data)))

RECURSIVE JoinValues(_, _)
JoinValues(vals, sep) ==
  IF Len(vals) = 0 THEN <<>>
  ELSE IF Len(vals) = 1 THEN JoinString(vals[1])
  ELSE JoinString(vals[1]) \o sep \o JoinValues(Tail(vals), sep)

\* The results glued together without a separator.
TranslatedResultNoSpace(translated) == JoinValues(translated, <<>>)

\* utils.ts:128
TranslatedResult(translated) == JoinValues(translated, <<" ">>)

\* utils.ts:131
TranslationFailed == "Failed to translate text. Please try again."

Pending      == [status |-> "pending",  value |-> <<>>, error |-> ""]
Resolved(v)  == [status |-> "resolved", value |-> v,    error |-> ""]
Rejected(m)  == [status |-> "rejected", value |-> <<>>, error |-> m]

\* ------------------------------------------------------------------------
\* getYouTubeLanguage (utils.ts:20-34)
\* ------------------------------------------------------------------------

\* String.prototype.toLowerCase on the cased characters the model uses: the
\* Latin capitals and the Cyrillic capital of the label table.  A character
\* outside ASCII is written as its code point, "u00F3".
UpperChars ==
  <<"A", "B", "C", "D", "E", "F", "G", "H", "I", "J", "K", "L", "M", "N", "O",
    "P", "Q", "R", "S", "T", "U", "V", "W", "X", "Y", "Z", "u041F">>
LowerChars ==
  <<"a", "b", "c", "d", "e", "f", "g", "h", "i", "j", "k", "l", "m", "n", "o",
    "p", "q", "r", "s", "t", "u", "v", "w", "x", "y", "z", "u043F">>

ToLowerChar(c) ==
  IF \E i \in 1..Len(UpperChars) : UpperChars[i] = c
  THEN LowerChars[CHOOSE i \in 1..Len(UpperChars) : UpperChars[i] = c]
  ELSE c

toLowerCase(s) == [i \in 1..Len(s) |-> ToLowerChar(s[i])]

\* utils.ts:24,29,33: x.split("-")[0].toLowerCase()
PrimarySubtag(s) == toLowerCase(Split(s, "-")[1])

\* A detector that asks the document before the URL.
getYouTubeLanguageHtmlFirst(paramLanguage, htmlLang, navigatorLanguage) ==
  IF Truthy(htmlLang) THEN PrimarySubtag(htmlLang.s)
  ELSE IF Truthy(paramLanguage) THEN PrimarySubtag(paramLanguage.s)
  ELSE PrimarySubtag(IF Truthy(navigatorLanguage)
                     THEN navigatorLanguage.s
                     ELSE <<"e", "n">>)

\* utils.ts:20-34; the arguments are the hl parameter, the lang attribute of
\* the document element and navigator.language.
getYouTubeLanguage(paramLanguage, htmlLang, navigatorLanguage) ==
  IF Truthy(paramLanguage) THEN PrimarySubtag(paramLanguage.s)
  ELSE IF Truthy(htmlLang) THEN PrimarySubtag(htmlLang.s)
  ELSE PrimarySubtag(IF Truthy(navigatorLanguage)
                     THEN navigatorLanguage.s
                     ELSE <<"e", "n">>)

\* ------------------------------------------------------------------------
\* getTranscriptButton (youtube-utils.ts:19-109)
\* ------------------------------------------------------------------------

\* youtube-utils.ts:19-41
TRANSCRIPT_BUTTON_LABELS ==
     (<<"e", "n">> :> <<"S", "h", "o", "w", " ", "t", "r", "a", "n", "s", "c", "r", "i", "p", "t">>)
  @@ (<<"e", "s">> :> <<"M", "o", "s", "t", "r", "a", "r", " ", "t", "r", "a", "n", "s", "c", "r", "i", "p", "c", "i", "u00F3", "n">>)
  @@ (<<"f", "r">> :> <<"A", "f", "f", "i", "c", "h", "e", "r", " ", "l", "a", " ", "t", "r", "a", "n", "s", "c", "r", "i", "p", "t", "i", "o", "n">>)
  @@ (<<"d", "e">> :> <<"T", "r", "a", "n", "s", "k", "r", "i", "p", "t", " ", "a", "n", "z", "e", "i", "g", "e", "n">>)
  @@ (<<"i", "t">> :> <<"M", "o", "s", "t", "r", "a", " ", "t", "r", "a", "s", "c", "r", "i", "z", "i", "o", "n", "e">>)
  @@ (<<"p", "t">> :> <<"M", "o", "s", "t", "r", "a", "r", " ", "t", "r", "a", "n", "s", "c", "r", "i", "u00E7", "u00E3", "o">>)
  @@ (<<"r", "u">> :> <<"u041F", "u043E", "u043A", "u0430", "u0437", "u0430", "u0442", "u044C", " ", "u0440", "u0430", "u0441", "u0448", "u0438", "u0444", "u0440", "u043E", "u0432", "u043A", "u0443">>)
  @@ (<<"j", "a">> :> <<"u6587", "u5B57", "u8D77", "u3053", "u3057", "u3092", "u8868", "u793A">>)
  @@ (<<"k", "o">> :> <<"uB179", "uCDE8", "uB85D", " ", "uD45C", "uC2DC">>)
  @@ (<<"z", "h", "-", "H", "a", "n", "s">> :> <<"u663E", "u793A", "u5B57", "u5E55", "u6587", "u7A3F">>)
  @@ (<<"z", "h", "-", "H", "a", "n", "t">> :> <<"u986F", "u793A", "u5B57", "u5E55", "u6587", "u7A3F">>)
  @@ (<<"z", "h">> :> <<"u663E", "u793A", "u5B57", "u5E55", "u6587", "u7A3F">>)
  @@ (<<"a", "r">> :> <<"u0625", "u0638", "u0647", "u0627", "u0631", " ", "u0627", "u0644", "u0646", "u0635">>)
  @@ (<<"n", "l">> :> <<"T", "r", "a", "n", "s", "c", "r", "i", "p", "t", " ", "w", "e", "e", "r", "g", "e", "v", "e", "n">>)
  @@ (<<"p", "l">> :> <<"P", "o", "k", "a", "u017C", " ", "t", "r", "a", "n", "s", "k", "r", "y", "p", "c", "j", "u0119">>)
  @@ (<<"t", "r">> :> <<"D", "e", "u015F", "i", "f", "r", "e", " ", "m", "e", "t", "n", "i", " ", "g", "u00F6", "s", "t", "e", "r">>)
  @@ (<<"h", "i">> :> <<"u091F", "u094D", "u0930", "u093E", "u0902", "u0938", "u0915", "u094D", "u0930", "u093F", "u092A", "u094D", "u091F", " ", "u0926", "u093F", "u0916", "u093E", "u090F", "u0902">>)
  @@ (<<"s", "v">> :> <<"V", "i", "s", "a", " ", "t", "r", "a", "n", "s", "k", "r", "i", "p", "t", "i", "o", "n">>)
  @@ (<<"n", "o">> :> <<"V", "i", "s", " ", "t", "r", "a", "n", "s", "k", "r", "i", "p", "t">>)
  @@ (<<"d", "a">> :> <<"V", "i", "s", " ", "t", "r", "a", "n", "s", "s", "k", "r", "i", "p", "t", "i", "o", "n">>)
  @@ (<<"f", "i">> :> <<"N", "u00E4", "y", "t", "u00E4", " ", "t", "e", "k", "s", "t", "i", "t", "y", "s">>)

\* youtube-utils.ts:87-95
transcriptKeywords ==
  << <<"t", "r", "a", "n", "s", "c", "r", "i", "p", "t">>,
     <<"t", "r", "a", "n", "s", "k", "r", "i", "p", "t">>,
     <<"t", "r", "a", "n", "s", "c", "r", "i", "p", "c", "i", "u00F3", "n">>,
     <<"t", "r", "a", "n", "s", "c", "r", "i", "u00E7", "u00E3", "o">>,
     <<"t", "r", "a", "s", "c", "r", "i", "z", "i", "o", "n", "e">>,
     <<"u5B57", "u5E55">>,
     <<"uBB38", "uC790">> >>

\* youtube-utils.ts:61-62
ExpectedLabel(currentLanguage) ==
  IF currentLanguage \in DOMAIN TRANSCRIPT_BUTTON_LABELS
  THEN TRANSCRIPT_BUTTON_LABELS[currentLanguage]
  ELSE TRANSCRIPT_BUTTON_LABELS[<<"e", "n">>]

\* The first of a set of positions, 0 when there is none: the button a
\* for-of loop returns at.
FirstIndex(S) == IF S = {} THEN 0 ELSE Min(S)

\* youtube-utils.ts:71-77
ExactMatch(allButtons, expectedLabel) ==
  FirstIndex({i \in 1..Len(allButtons) :
                toLowerCase(allButtons[i]) = toLowerCase(expectedLabel)})

\* youtube-utils.ts:79-85
PartialMatch(allButtons, expectedLabel) ==
  FirstIndex({i \in 1..Len(allButtons) :
                Includes(toLowerCase(allButtons[i]), toLowerCase(expectedLabel))})

\* youtube-utils.ts:97-103
KeywordMatch(allButtons) ==
  FirstIndex({i \in 1..Len(allButtons) :
                \E k \in 1..Len(transcriptKeywords) :
                  Includes(toLowerCase(allButtons[i]), transcriptKeywords[k])})

\* youtube-utils.ts:74, 82, 100: the pass getTranscriptButton returns in.
LocatorPass(allButtons, currentLanguage) ==
  LET label == ExpectedLabel(currentLanguage)
  IN IF ExactMatch(allButtons, label) # 0 THEN 1
     ELSE IF PartialMatch(allButtons, label) # 0 THEN 2
     ELSE IF KeywordMatch(allButtons) # 0 THEN 3
     ELSE 0

\* One pass for the three tests: the first button that passes any of them.
getTranscriptButtonMerged(allButtons, currentLanguage) ==
  FirstIndex({i \in 1..Len(allButtons) :
    \/ Includes(toLowerCase(allButtons[i]),
                toLowerCase(ExpectedLabel(currentLanguage)))
    \/ \E k \in 1..Len(transcriptKeywords) :
         Includes(toLowerCase(allButtons[i]), transcriptKeywords[k])})

\* youtube-utils.ts:59-109.  allButtons is the aria-label of every
\* button[aria-label] of the page in document order; the result is the
\* position of the button returned, 0 for null.
getTranscriptButton(allButtons, currentLanguage) ==
  LET expectedLabel == ExpectedLabel(currentLanguage)
  IN IF ExactMatch(allButtons, expectedLabel) # 0
     THEN ExactMatch(allButtons, expectedLabel)
     ELSE IF PartialMatch(allButtons, expectedLabel) # 0
     THEN PartialMatch(allButtons, expectedLabel)
     ELSE KeywordMatch(allButtons)

\* ------------------------------------------------------------------------
\* getYouTubeTranscript and its two paths (content.ts:57-185)
\* ------------------------------------------------------------------------

\* content.ts:61
MissingVideoId == "Could not extract video ID from URL"
\* content.ts:66
NoTranscript == "No transcript available for this video"
\* content.ts:102
CouldNotRetrieve == "Could not retrieve transcript"
\* content.ts:105
NotAvailable ==
  "Transcript not available. Please ensure captions are enabled for this video."
\* content.ts:30
FailedToExtract == "Failed to extract transcript"

\* A test for null alone, which lets the empty string through.
VideoIdIsNull(videoId) == videoId.isNull

\* content.ts:60: !videoId
VideoIdMissing(videoId) == ~Truthy(videoId)

\* String.prototype.replace(/\n/g, " ")
ReplaceNewlines(s) == [i \in 1..Len(s) |-> IF s[i] = "\n" THEN " " ELSE s[i]]

\* String.prototype.replace(/\s+/g, " ")
RECURSIVE CollapseWhitespace(_)
CollapseWhitespace(s) ==
  IF s = <<>> THEN <<>>
  ELSE IF Head(s) \in Whitespace
  THEN LET rest == {k \in 1..Len(s) : s[k] \notin Whitespace}
       IN <<" ">> \o (IF rest = {} THEN <<>>
                      ELSE CollapseWhitespace(SubSeq(s, Min(rest), Len(s))))
  ELSE <<Head(s)>> \o CollapseWhitespace(Tail(s))

\* content.ts:125-127: the events that have segs, each the concatenation of
\* the utf8 of its segs.
RECURSIVE EventTexts(_)
EventTexts(events) ==
  IF events = <<>> THEN <<>>
  ELSE IF Head(events).hasSegs
  THEN <<Join(Head(events).segs, <<>>)>> \o EventTexts(Tail(events))
  ELSE EventTexts(Tail(events))

\* The flattening with the final trim left out.
PlayerTranscriptTextUntrimmed(events) ==
  CollapseWhitespace(ReplaceNewlines(Join(EventTexts(events), <<" ">>)))

\* content.ts:125-131
PlayerTranscriptText(events) ==
  Trim(CollapseWhitespace(ReplaceNewlines(Join(EventTexts(events), <<" ">>))))

\* x || null
OrNull(x) == IF x # <<>> THEN Str(x) ELSE Null

\* A flattening that leaves the whitespace runs as they are.
PlayerApiResultUncollapsed(body) ==
  IF body.isNull THEN Null
  ELSE IF ~body.hasEvents THEN Null
  ELSE IF ~body.eventsIsArray THEN Null
  ELSE OrNull(Trim(ReplaceNewlines(Join(EventTexts(body.events), <<" ">>))))

\* content.ts:122-140: what getTranscriptFromPlayerAPI returns for a parsed
\* body.  A body whose events is no array makes .filter throw, which the
\* catch turns into null.
PlayerApiResult(body) ==
  IF body.isNull \/ ~body.hasEvents THEN Null
  ELSE IF ~body.eventsIsArray THEN Null
  ELSE OrNull(PlayerTranscriptText(body.events))

\* content.ts:172-177: the trimmed text of every segment that has some.
RECURSIVE SegmentTexts(_)
SegmentTexts(segments) ==
  IF segments = <<>> THEN <<>>
  ELSE LET t == IF Head(segments).isNull THEN <<>> ELSE Trim(Head(segments).s)
       IN (IF Len(t) # 0 THEN <<t>> ELSE <<>>) \o SegmentTexts(Tail(segments))

\* content.ts:163-180: what getTranscriptFromDOM returns once it reads the
\* segments.  A segment is the textContent of its .segment-text element, null
\* when it has none.
DomTranscriptResult(segments) ==
  IF Len(segments) = 0 THEN Null
  ELSE OrNull(Join(SegmentTexts(segments), <<" ">>))

\* content.ts:155
PanelClosed(panel) == panel \in {"absent", "hidden"}

\* A fallback that runs whatever the first path returned.
NeedsDomPathAlways(transcript) == TRUE

\* content.ts:93-95: the DOM path runs only when the first path returned
\* nothing.
NeedsDomPath(transcript) == ~Truthy(transcript)

\* A catch that lets the error it caught through.
FetchTranscriptErrorInner(inner) == inner

\* content.ts:103-107: whatever was thrown, the not-available error is.
FetchTranscriptError(inner) == NotAvailable

\* content.ts:90-108: how fetchTranscriptFromYouTube settles once its paths
\* have returned.
FetchTranscriptOutcome(transcript, domTranscript) ==
  IF Truthy(transcript) THEN Resolved(transcript.s)
  ELSE IF Truthy(domTranscript) THEN Resolved(domTranscript.s)
  ELSE Rejected(FetchTranscriptError(CouldNotRetrieve))

\* content.ts:64-73: how getYouTubeTranscript settles on that outcome.
GetTranscriptOutcome(fetched) ==
  IF fetched.status = "rejected" THEN fetched
  ELSE IF fetched.value = <<>> THEN Rejected(NoTranscript)
  ELSE fetched

\* How many times the page may re-render while the settle delay runs.
MaxRenders == 1

\* The inputs of one extraction.
VParams == {Null, Str(<<>>), Str(<<"x", "y", "z">>)}
HlParams == {Null, Str(<<"e", "s">>)}
HtmlLangs == {Str(<<"e", "n", "-", "U", "S">>)}
NavigatorLanguages == {Str(<<"e", "n", "-", "U", "S">>)}

\* The aria-labels of the page's buttons: none, a page with the English
\* transcript button, one with the Spanish one, one without any.
ButtonFixtures ==
  { <<>>,
    << <<"L", "i", "k", "e">>,
       <<"S", "h", "o", "w", " ", "t", "r", "a", "n", "s", "c", "r", "i", "p", "t">> >>,
    << <<"M", "o", "s", "t", "r", "a", "r", " ", "t", "r", "a", "n", "s", "c", "r",
         "i", "p", "c", "i", "u00F3", "n">> >>,
    << <<"S", "h", "a", "r", "e">> >> }

Panels == {"absent", "hidden", "open"}

\* The transcript segments a page may hold.
SegmentLists ==
  { <<>>,
    << Str(<<" ">>) >>,
    << Null, Str(<<" ", "H", "i", " ">>) >>,
    << Str(<<"a">>), Str(<<>>), Str(<<"b">>) >> }

TimedTextBody(isNull, hasEvents, eventsIsArray, events) ==
  [isNull |-> isNull, hasEvents |-> hasEvents,
   eventsIsArray |-> eventsIsArray, events |-> events]

NoBody == TimedTextBody(TRUE, FALSE, FALSE, <<>>)

Event(segs) == [hasSegs |-> TRUE, segs |-> segs]
EventWithoutSegs == [hasSegs |-> FALSE, segs |-> <<>>]

\* The bodies the timed-text endpoint answers with: null, {}, {events: "x"},
\* {events: []}, the two events "Hello " and "world", an event without segs
\* followed by a whitespace-only one, and one event with inner whitespace.
TimedTextBodies ==
  { NoBody,
    TimedTextBody(FALSE, FALSE, FALSE, <<>>),
    TimedTextBody(FALSE, TRUE, FALSE, <<>>),
    TimedTextBody(FALSE, TRUE, TRUE, <<>>),
    TimedTextBody(FALSE, TRUE, TRUE,
      << Event(<< <<"H", "e", "l", "l", "o", " ">> >>),
         Event(<< <<"w", "o", "r", "l", "d">> >>) >>),
    TimedTextBody(FALSE, TRUE, TRUE,
      << EventWithoutSegs, Event(<< <<"\n">>, <<" ">> >>) >>),
    TimedTextBody(FALSE, TRUE, TRUE,
      << Event(<< <<" ", "a", "\n">>, <<"\t", "b", " ">> >>) >>) }

\* The utf8 texts a caption segment carries.
Utf8Texts ==
  { <<>>, <<"H", "e", "l", "l", "o", " ">>, <<"w", "o", "r", "l", "d">>,
    <<"\n">>, <<" ", "a">> }

\* The segs of an event: up to two segments.
SegLists ==
  {<<>>} \cup {<<u>> : u \in Utf8Texts}
         \cup {<<u, v>> : u \in Utf8Texts, v \in Utf8Texts}

MaxEvents == 2

\* Every events list of up to MaxEvents events, with or without segs.
EventLists ==
  SeqsUpTo({EventWithoutSegs} \cup {Event(segs) : segs \in SegLists}, MaxEvents)

\* content.ts:149: the milliseconds getTranscriptFromDOM waits after the
\* click.
SETTLE_DELAY == 1500

\* The promise of an enhancement: its value is a string or undefined, its
\* error a message in pieces.
EPending == [status |-> "pending", value |-> Null, error |-> <<>>]
EResolved(v) == [status |-> "resolved", value |-> v, error |-> <<>>]
ERejected(m) == [status |-> "rejected", value |-> Null, error |-> m]

\* A response of the summarisation endpoint: its status, its
\* x-ratelimit-reset header (null when absent), and what response.text() or
\* response.json() gave once one of them was read.
NoResponse ==
  [status |-> 0, reset |-> Null, read |-> "none", text |-> "",
   data |-> [isNull |-> TRUE, entries |-> <<>>]]

\* The endpoint of the summarisation model.
HF_ENDPOINT == "https://api-inference.huggingface.co/models/facebook/bart-large-cnn"

\* content.ts:189-202: the one request of an enhancement.
EnhanceRequest(transcript) ==
  [url |-> HF_ENDPOINT, method |-> "POST", inputs |-> transcript,
   max_length |-> 150, min_length |-> 30, do_sample |-> FALSE]

DigitValue ==
  ("0" :> 0) @@ ("1" :> 1) @@ ("2" :> 2) @@ ("3" :> 3) @@ ("4" :> 4) @@
  ("5" :> 5) @@ ("6" :> 6) @@ ("7" :> 7) @@ ("8" :> 8) @@ ("9" :> 9)

\* The value of the digits of s read from the left up to the first character
\* that is no digit, after acc.
RECURSIVE LeadingDigits(_, _)
LeadingDigits(s, acc) ==
  IF s = <<>> \/ Head(s) \notin DOMAIN DigitValue THEN acc
  ELSE LeadingDigits(Tail(s), acc * 10 + DigitValue[Head(s)])

\* parseInt(s): leading whitespace is skipped; NaN when no digit follows.
RECURSIVE ParseInt(_)
ParseInt(s) ==
  IF s = <<>> THEN [nan |-> TRUE, n |-> 0]
  ELSE IF Head(s) \in Whitespace THEN ParseInt(Tail(s))
  ELSE IF Head(s) \notin DOMAIN DigitValue THEN [nan |-> TRUE, n |-> 0]
  ELSE [nan |-> FALSE, n |-> LeadingDigits(s, 0)]

TwoDigits(n) == IF n < 10 THEN <<"0", ToString(n)>> ELSE <<ToString(n)>>

\* new Date(ms).toLocaleTimeString(), for a 24-hour locale in UTC: the time of
\* day in pieces, "Invalid Date" for NaN.
LocaleTimeString(ms) ==
  IF ms.nan THEN <<"Invalid Date">>
  ELSE LET secs == (ms.n \div 1000) % 86400
       IN TwoDigits(secs \div 3600) \o <<":">> \o TwoDigits((secs % 3600) \div 60)
            \o <<":">> \o TwoDigits(secs % 60)

\* content.ts:207: new Date(parseInt(resetTime) * 1000)
ResetDate(resetTime) ==
  [nan |-> ParseInt(resetTime).nan, n |-> ParseInt(resetTime).n * 1000]

\* A reset message that never carries the time.
ResetMsgGeneric(resetTime) == <<"Try again later">>

\* content.ts:206-210: resetTime is the x-ratelimit-reset header, null when
\* the response has none.
ResetMsg(resetTime) ==
  IF Truthy(resetTime)
  THEN <<"Try again after ">> \o LocaleTimeString(ResetDate(resetTime.s))
  ELSE <<"Try again later">>

\* content.ts:211
RateLimitMessage(resetTime) == <<"Rate limit exceeded. ">> \o ResetMsg(resetTime)

\* content.ts:215
ModelLoading == <<"Model is loading. Please wait 20 seconds and try again">>

\* content.ts:219
ApiErrorMessage(status, errorText) ==
  <<"API error: ", ToString(status), " - ", errorText>>

\* What fetch, response.text() and response.json() reject with, and what
\* indexing null or undefined throws.
FailedToFetch == <<"Failed to fetch">>
BodyStreamError == <<"body stream already read">>
NotJsonMessage == <<"Unexpected token < in JSON">>
NullHasNoEntries == <<"Cannot read properties of null (reading '0')">>
NoFirstEntry == <<"Cannot read properties of undefined (reading 'summary_text')">>

\* content.ts:46
FailedToEnhance == <<"Failed to enhance transcript">>

\* error.message is the empty string.
MessageEmpty(message) == \A i \in 1..Len(message) : message[i] = ""

\* Response.ok
StatusOk(status) == status \in 200..299

\* The body of a success response: null or a list of entries, each with or
\* without a summary_text.
SummaryBody(isNull, entries) == [isNull |-> isNull, entries |-> entries]
SummaryEntry(hasText, summaryText) ==
  [hasSummary |-> hasText, summary_text |-> summaryText]

\* content.ts:229: data[0].summary_text, a value or a TypeError.
SummaryOutcome(data) ==
  IF data.isNull THEN ERejected(NullHasNoEntries)
  ELSE IF data.entries = <<>> THEN ERejected(NoFirstEntry)
  ELSE IF data.entries[1].hasSummary
    THEN EResolved(Str(data.entries[1].summary_text))
  ELSE EResolved(Null)

\* What the summarisation endpoint is asked and answers.
EnhanceInputs == {<<>>, <<"a", " ", "b", ".">>}
EnhanceStatuses == {200, 429, 503, 500, 404}
ResetHeaders ==
  {Null, Str(<<>>), Str(<<"3", "7", "2", "5">>), Str(<<"s", "o", "o", "n">>)}
ErrorTexts == {"", "Internal Server Error"}
SummaryBodies ==
  { SummaryBody(TRUE, <<>>),
    SummaryBody(FALSE, <<>>),
    SummaryBody(FALSE, <<SummaryEntry(FALSE, <<>>)>>),
    SummaryBody(FALSE, <<SummaryEntry(TRUE, <<"a", ".">>), SummaryEntry(TRUE, <<"b">>)>>) }

\* What the hl parameter, the lang attribute and navigator.language hold:
\* nothing, the empty string, fr-CA, de-DE, EN, fil, zh-Hant-TW, es.
LanguageSignals ==
  { Null, Str(<<>>),
    Str(<<"f", "r", "-", "C", "A">>),
    Str(<<"d", "e", "-", "D", "E">>),
    Str(<<"E", "N">>),
    Str(<<"f", "i", "l">>),
    Str(<<"z", "h", "-", "H", "a", "n", "t", "-", "T", "W">>),
    Str(<<"e", "s">>) }

\* The aria-labels the buttons of a page carry: the English label as it is,
\* in capitals and inside a longer label, a label with a keyword only, one
\* with neither, an empty one, and the Spanish label.
LabelPool ==
  { <<"S", "h", "o", "w", " ", "t", "r", "a", "n", "s", "c", "r", "i", "p", "t">>,
    <<"S", "H", "O", "W", " ", "T", "R", "A", "N", "S", "C", "R", "I", "P", "T">>,
    <<"S", "h", "o", "w", " ", "t", "r", "a", "n", "s", "c", "r", "i", "p", "t", " ", "p", "a", "n", "e", "l">>,
    <<"T", "r", "a", "n", "s", "c", "r", "i", "p", "t">>,
    <<"L", "i", "k", "e">>,
    <<>>,
    <<"M", "o", "s", "t", "r", "a", "r", " ", "t", "r", "a", "n", "s", "c", "r", "i", "p", "c", "i", "u00F3", "n">> }

MaxButtons == 3

\* The hl parameter of a page whose lang attribute is en-US: none, es, and a
\* code the table does not have.
LocatorHls == {Null, Str(<<"e", "s">>), Str(<<"x", "x">>)}

\* The aria-label of the subtitles button of a Chinese page.
SubtitlesLabel == <<"u5B57", "u5E55">>

\* The pages of an interface language of the table: the button with the
\* label mapped to it, alone, in lower case, after another button, and after
\* the subtitles button.
KeyFixtures(key) ==
  { <<TRANSCRIPT_BUTTON_LABELS[key]>>,
    <<toLowerCase(TRANSCRIPT_BUTTON_LABELS[key])>>,
    <<<<"L", "i", "k", "e">>, TRANSCRIPT_BUTTON_LABELS[key]>>,
    <<SubtitlesLabel, TRANSCRIPT_BUTTON_LABELS[key]>> }

\* popup.ts:43, 72, 88: the status texts of the popup.
GettingTranscript == "Getting transcript from YouTube..."
TranslatingTranscript == "Translating transcript..."
TranslationComplete == "Translation complete!"
\* popup.ts:53, 60, 70
NoActiveTab == "No active tab found"
NotAVideoPage == "Please open a YouTube video page"
FailedToGetTranscript == "Failed to get transcript"
\* What chrome.tabs.sendMessage rejects with when no listener is there.
NoReceivingEnd == "Could not establish connection. Receiving end does not exist."

\* A popup that shows its own text for every failure.
ResponseErrorGeneric(response) == FailedToGetTranscript

\* popup.ts:70: response.error || "Failed to get transcript"
ResponseError(response) ==
  IF response.error # "" THEN response.error ELSE FailedToGetTranscript

\* A tab: whether it has an id, and its url, null when it has none.
Tab(hasId, url) == [hasId |-> hasId, url |-> url]
NoTab == Tab(FALSE, Null)

WatchUrl == <<"h", "t", "t", "p", "s", ":", "/", "/", "w", "w", "w", ".", "y", "o", "u", "t", "u", "b", "e", ".", "c", "o", "m", "/", "w", "a", "t", "c", "h">>
ShortUrl == <<"h", "t", "t", "p", "s", ":", "/", "/", "y", "o", "u", "t", "u", ".", "b", "e", "/", "x", "y", "z">>
OtherUrl == <<"h", "t", "t", "p", "s", ":", "/", "/", "e", "x", "a", "m", "p", "l", "e", ".", "c", "o", "m", "/">>

\* popup.ts:56-59
IsVideoPage(url) ==
  ~url.isNull /\ (Includes(url.s, <<"y", "o", "u", "t", "u", "b", "e", ".", "c", "o", "m", "/", "w", "a", "t", "c", "h">>) \/ Includes(url.s, <<"y", "o", "u", "t", "u", ".", "b", "e", "/">>))

\* The tabs the popup is opened on: a watch page, a short link, another site,
\* a tab without a url, a watch page without a tab id.
Tabs ==
  { Tab(TRUE, Str(WatchUrl)), Tab(TRUE, Str(ShortUrl)), Tab(TRUE, Str(OtherUrl)),
    Tab(TRUE, Null), Tab(FALSE, Str(WatchUrl)) }

\* ------------------------------------------------------------------------
\* State.
\* ------------------------------------------------------------------------
VARIABLES
  text,             \* the argument of smartChunkText / translateText
  chunks,           \* what smartChunkText returned
  cpc,              \* "ready" before smartChunkText is called, "done" after
  targetLang,       \* the second argument of translateText
  tpc,              \* translateText: "idle", "fetch", "json", "done", "failed"
  requests,         \* the translate requests issued, in order
  responses,        \* how each request was answered, in order
  translatedChunks, \* utils.ts:110
  tresult,          \* the promise translateText returned
  location,         \* the v and hl parameters of window.location.search
  htmlLang,         \* the lang attribute of the document element
  navigatorLanguage,\* navigator.language
  dom,              \* the page: button labels, transcript panel, segments
  rpc,              \* the router: "idle", "working", "responded"
  sent,             \* the responses the router passed to sendResponse
  epc,              \* getYouTubeTranscript: "idle", "apiFetch", "apiJson",
                    \*   "settle", "done", "failed"
  eresult,          \* the promise getYouTubeTranscript returned
  apiRequests,      \* the video ids of the timed-text requests issued
  apiOutcome,       \* how the timed-text request went: "none", "networkError",
                    \*   "httpError", "notJson", "body"
  apiBody,          \* the parsed body when apiOutcome = "body"
  path1,            \* getTranscriptFromPlayerAPI: "notStarted", "pending",
                    \*   "returned"
  transcript,       \* what getTranscriptFromPlayerAPI returned
  path2,            \* getTranscriptFromDOM: "notStarted", "pending", "returned"
  domTranscript,    \* what getTranscriptFromDOM returned
  buttonLookups,    \* calls of getTranscriptButton
  clicks,           \* the buttons clicked, by position
  timers,           \* settle delays started
  segmentReads,     \* times the transcript segments were read from the page
  renders,          \* times the page re-rendered the panel during the delay
  timersFired,      \* settle delays that have elapsed
  timerDue,         \* the milliseconds of the settle delay started, 0 if none
  request,          \* the action of the message the listener is sent
  returned,         \* what the listener returned: "none", "true", "false"
  hpc,              \* enhanceTranscriptWithAI: "idle", "fetch", "text", "json",
                    \*   "done", "failed"
  hresult,          \* the promise enhanceTranscriptWithAI returned
  hRequests,        \* the requests sent to the summarisation endpoint
  hResponse,        \* the response of the summarisation endpoint
  hsent,            \* the responses the router sent to an enhanceTranscript
  lpc,              \* the language detector and the button locator on their
                    \*   own: "ready", "detected", "located"
  language,         \* what getYouTubeLanguage returned
  expectedLabel,    \* youtube-utils.ts:61-62
  located,          \* the position of the button getTranscriptButton
                    \*   returned, 0 for null
  pass,             \* the pass it returned in: 1, 2 or 3, 0 for null
  sentences,        \* smartChunkText step by step: the sentences the loop
                    \*   has still to take
  currentChunk,     \* utils.ts:50
  runningBefore,    \* currentChunk before the last iteration
  countBefore,      \* chunks.length before the last iteration
  unit,             \* trimmedSentence of the last iteration, null before the
                    \*   first
  ppc,              \* the popup's click handler: "idle", "query",
                    \*   "sendMessage", "translating", "done"
  tab,              \* the active tab: whether it has an id, and its url
  statusLog,        \* the calls of setStatus, in order
  disabled,         \* transcriptButton.disabled
  shown             \* the text shown in the result container, null if none

chunkVars     == <<text, chunks, cpc>>
translateVars == <<targetLang, tpc, requests, responses, translatedChunks, tresult>>
pageVars      == <<location, htmlLang, navigatorLanguage>>
extractVars   == <<rpc, sent, epc, eresult, apiRequests, apiOutcome, apiBody,
                   path1, transcript, path2, domTranscript, buttonLookups,
                   clicks, timers, segmentReads, timersFired, timerDue,
                   returned>>
extractRunVars == <<epc, eresult, apiRequests, apiOutcome, apiBody, path1,
                    transcript, path2, domTranscript, buttonLookups, clicks,
                    timers, segmentReads, timersFired, timerDue>>
enhanceVars   == <<hpc, hresult, hRequests, hResponse, hsent>>
locatorVars   == <<lpc, language, expectedLabel, located, pass>>
packVars      == <<sentences, currentChunk, runningBefore, countBefore, unit>>
popupVars     == <<ppc, tab, statusLog, disabled, shown>>
sideVars      == <<locatorVars, packVars, popupVars>>
restVars      == <<request, enhanceVars, sideVars>>
vars == <<chunkVars, translateVars, pageVars, dom, renders, extractVars, restVars>>

TranslateIdle ==
  /\ targetLang \in TargetLangs
  /\ tpc = "idle"
  /\ requests = <<>>
  /\ responses = <<>>
  /\ translatedChunks = <<>>
  /\ tresult = Pending

ExtractIdle ==
  /\ rpc = "idle"
  /\ sent = <<>>
  /\ epc = "idle"
  /\ eresult = Pending
  /\ apiRequests = <<>>
  /\ apiOutcome = "none"
  /\ apiBody = NoBody
  /\ path1 = "notStarted"
  /\ transcript = Null
  /\ path2 = "notStarted"
  /\ domTranscript = Null
  /\ buttonLookups = 0
  /\ clicks = <<>>
  /\ timers = 0
  /\ segmentReads = 0
  /\ timersFired = 0
  /\ timerDue = 0
  /\ returned = "none"

\* No enhancement under way.
EnhanceIdle ==
  /\ hpc = "idle"
  /\ hresult = EPending
  /\ hRequests = <<>>
  /\ hResponse = NoResponse
  /\ hsent = <<>>

\* No call of the detector or the locator on its own.
LocatorIdle ==
  /\ lpc = "ready"
  /\ language = <<>>
  /\ expectedLabel = <<>>
  /\ located = 0
  /\ pass = 0

\* No smartChunkText call taken step by step.
PackIdle ==
  /\ sentences = <<>>
  /\ currentChunk = <<>>
  /\ runningBefore = <<>>
  /\ countBefore = 0
  /\ unit = Null

\* A popup nobody has clicked in.
PopupIdle ==
  /\ ppc = "idle"
  /\ tab = NoTab
  /\ statusLog = <<>>
  /\ disabled = FALSE
  /\ shown = Null

SideIdle == LocatorIdle /\ PackIdle /\ PopupIdle

\* No message for the listener.
RestIdle ==
  /\ request = "none"
  /\ EnhanceIdle
  /\ SideIdle

\* A page nothing is asked of.
PageIdle ==
  /\ location = [v |-> Null, hl |-> Null]
  /\ htmlLang = Null
  /\ navigatorLanguage = Null
  /\ dom = [buttons |-> <<>>, panel |-> "absent", segments |-> <<>>]
  /\ renders = 0

\* ------------------------------------------------------------------------
\* The chunker on its own: every text up to MaxLen, one call.
\* ------------------------------------------------------------------------
InitChunk ==
  /\ text \in Texts
  /\ chunks = <<>>
  /\ cpc = "ready"
  /\ RestIdle
  /\ TranslateIdle
  /\ PageIdle
  /\ ExtractIdle

CallSmartChunkText ==
  /\ cpc = "ready"
  /\ chunks' = smartChunkText(text)
  /\ cpc' = "done"
  /\ UNCHANGED <<text, translateVars, pageVars, dom, renders, extractVars,
               restVars>>

NextChunk == CallSmartChunkText

SpecChunk == InitChunk /\ [][NextChunk]_vars

\* ------------------------------------------------------------------------
\* translateText: one call, the endpoint answering each request in any of
\* the ways it can.
\* ------------------------------------------------------------------------
InitTranslate ==
  /\ RestIdle
  /\ text \in TranslateTexts
  /\ chunks = <<>>
  /\ cpc = "ready"
  /\ TranslateIdle
  /\ PageIdle
  /\ ExtractIdle

\* utils.ts:129-132
TranslateCatch(log) ==
  /\ responses' = log
  /\ tpc' = "failed"
  /\ tresult' = Rejected(TranslationFailed)
  /\ UNCHANGED <<requests, translatedChunks>>

\* utils.ts:107-117: the call runs up to its first await.
BeginTranslate(input) ==
  /\ chunks' = smartChunkText(input)
  /\ cpc' = "done"
  /\ IF Len(chunks') = 0
     THEN /\ tpc' = "done"
          /\ tresult' = Resolved(TranslatedResult(translatedChunks))
          /\ UNCHANGED requests
     ELSE /\ requests' = IssueFetch(requests, chunks', 1, targetLang)
          /\ tpc' = "fetch"
          /\ UNCHANGED tresult
  /\ UNCHANGED <<targetLang, responses, translatedChunks>>

\* translateText called with the text of the state.
CallTranslateText ==
  /\ tpc = "idle"
  /\ BeginTranslate(text)
  /\ UNCHANGED text
  /\ UNCHANGED <<pageVars, dom, renders, extractVars,
               restVars>>

\* utils.ts:115: fetch rejects (network error).
FetchRejects ==
  /\ tpc = "fetch"
  /\ TranslateCatch(Append(responses, [kind |-> "networkError", data |-> JNull]))
  /\ UNCHANGED <<chunkVars, targetLang, pageVars, dom, renders, extractVars,
               restVars>>

\* utils.ts:115-119: fetch resolves, response.json() is awaited.
FetchResolves ==
  /\ tpc = "fetch"
  /\ tpc' = "json"
  /\ UNCHANGED <<chunkVars, targetLang, requests, responses, translatedChunks, tresult>>
  /\ UNCHANGED <<pageVars, dom, renders, extractVars,
               restVars>>

\* utils.ts:119: the body is not JSON.
JsonRejects ==
  /\ tpc = "json"
  /\ TranslateCatch(Append(responses, [kind |-> "notJson", data |-> JNull]))
  /\ UNCHANGED <<chunkVars, targetLang, pageVars, dom, renders, extractVars,
               restVars>>

\* utils.ts:119-128: the body is parsed, the segment pushed, and the loop
\* goes on to the next chunk or the function returns.
JsonResolves(data) ==
  /\ tpc = "json"
  /\ LET log == Append(responses, [kind |-> "json", data |-> data])
     IN IF SegmentThrows(data)
        THEN TranslateCatch(log)
        ELSE /\ responses' = log
             /\ translatedChunks' = Append(translatedChunks, FirstSegment(data))
             /\ IF Len(translatedChunks') < Len(chunks)
                THEN /\ requests' = IssueFetch(requests, chunks,
                                               Len(translatedChunks') + 1, targetLang)
                     /\ tpc' = "fetch"
                     /\ UNCHANGED tresult
                ELSE /\ tpc' = "done"
                     /\ tresult' = Resolved(TranslatedResult(translatedChunks'))
                     /\ UNCHANGED requests
  /\ UNCHANGED <<chunkVars, targetLang, pageVars, dom, renders, extractVars,
               restVars>>

NextTranslate ==
  \/ CallTranslateText
  \/ FetchRejects
  \/ FetchResolves
  \/ JsonRejects
  \/ \E data \in TranslateBodies : JsonResolves(data)

SpecTranslate == InitTranslate /\ [][NextTranslate]_vars

\* ------------------------------------------------------------------------
\* The router's getTranscript request and getYouTubeTranscript: one request
\* on a page, the timed-text endpoint and the page answering in any of the
\* ways they can.
\* ------------------------------------------------------------------------
InitExtract ==
  /\ request = "getTranscript"
  /\ EnhanceIdle
  /\ SideIdle
  /\ text = <<>>
  /\ chunks = <<>>
  /\ cpc = "ready"
  /\ TranslateIdle
  /\ targetLang = "es"
  /\ location \in [v : VParams, hl : HlParams]
  /\ htmlLang \in HtmlLangs
  /\ navigatorLanguage \in NavigatorLanguages
  /\ dom \in [buttons : ButtonFixtures, panel : Panels, segments : SegmentLists]
  /\ renders = 0
  /\ ExtractIdle

\* content.ts:64-73 and 23-32: getYouTubeTranscript settles.
SettleExtract(fetched) ==
  /\ eresult' = GetTranscriptOutcome(fetched)
  /\ epc' = IF GetTranscriptOutcome(fetched).status = "resolved" THEN "done" ELSE "failed"

\* content.ts:163-180 and 98-107: the segments are read and both functions
\* return.
ReadSegments ==
  /\ segmentReads' = segmentReads + 1
  /\ path2' = "returned"
  /\ domTranscript' = DomTranscriptResult(dom.segments)
  /\ SettleExtract(FetchTranscriptOutcome(transcript', domTranscript'))

\* A DOM path that reads the segments at once, button or not, panel or not.
StartDomPathNoWait ==
  /\ buttonLookups' = buttonLookups + 1
  /\ LET transcriptButton ==
           getTranscriptButton(dom.buttons,
             getYouTubeLanguage(location.hl, htmlLang, navigatorLanguage))
     IN clicks' = IF transcriptButton # 0
                  THEN Append(clicks, transcriptButton) ELSE clicks
  /\ UNCHANGED <<timers, timerDue>>
  /\ ReadSegments

\* content.ts:143-161: getTranscriptFromDOM up to its await or its return.
StartDomPath ==
  /\ buttonLookups' = buttonLookups + 1
  /\ LET transcriptButton ==
           getTranscriptButton(dom.buttons,
             getYouTubeLanguage(location.hl, htmlLang, navigatorLanguage))
     IN IF transcriptButton # 0
        THEN /\ clicks' = Append(clicks, transcriptButton)
             /\ timers' = timers + 1
             /\ timerDue' = SETTLE_DELAY
             /\ path2' = "pending"
             /\ epc' = "settle"
             /\ UNCHANGED <<eresult, domTranscript, segmentReads>>
        ELSE /\ UNCHANGED <<clicks, timers, timerDue>>
             /\ IF PanelClosed(dom.panel)
                THEN /\ path2' = "returned"
                     /\ domTranscript' = Null
                     /\ SettleExtract(FetchTranscriptOutcome(transcript', domTranscript'))
                     /\ UNCHANGED segmentReads
                ELSE ReadSegments

\* content.ts:92-97: getTranscriptFromPlayerAPI has returned result.
AfterPlayerAPI(result) ==
  /\ path1' = "returned"
  /\ transcript' = result
  /\ IF NeedsDomPath(result)
     THEN StartDomPath
     ELSE /\ SettleExtract(FetchTranscriptOutcome(result, domTranscript))
          /\ UNCHANGED <<path2, domTranscript, buttonLookups, clicks, timers,
                         timerDue, segmentReads>>

\* content.ts:21-35, 57-64, 90-92, 110-116: the listener takes a getTranscript
\* request, getYouTubeTranscript runs up to its first await, and the listener
\* returns true.
OnGetTranscriptMessage ==
  /\ request = "getTranscript"
  /\ rpc = "idle"
  /\ rpc' = "working"
  /\ returned' = "true"
  /\ IF VideoIdMissing(location.v)
     THEN /\ eresult' = Rejected(MissingVideoId)
          /\ epc' = "failed"
          /\ UNCHANGED <<apiRequests, path1>>
     ELSE /\ apiRequests' = Append(apiRequests, location.v.s)
          /\ path1' = "pending"
          /\ epc' = "apiFetch"
          /\ UNCHANGED eresult
  /\ UNCHANGED <<sent, apiOutcome, apiBody, transcript, path2, domTranscript,
                 buttonLookups, clicks, timers, segmentReads, timersFired,
                 timerDue>>
  /\ UNCHANGED <<chunkVars, translateVars, pageVars, dom, renders, restVars>>

\* content.ts:114-116, 137-140: the timed-text fetch rejects.
ApiFetchRejects ==
  /\ epc = "apiFetch"
  /\ UNCHANGED timersFired
  /\ apiOutcome' = "networkError"
  /\ AfterPlayerAPI(Null)
  /\ UNCHANGED <<rpc, returned, sent, apiRequests, apiBody>>
  /\ UNCHANGED <<chunkVars, translateVars, pageVars, dom, renders, restVars>>

\* content.ts:118-120: the response has a non-success status.
ApiFetchNotOk ==
  /\ epc = "apiFetch"
  /\ UNCHANGED timersFired
  /\ apiOutcome' = "httpError"
  /\ AfterPlayerAPI(Null)
  /\ UNCHANGED <<rpc, returned, sent, apiRequests, apiBody>>
  /\ UNCHANGED <<chunkVars, translateVars, pageVars, dom, renders, restVars>>

\* content.ts:118-122: the response is ok, response.json() is awaited.
ApiFetchOk ==
  /\ epc = "apiFetch"
  /\ epc' = "apiJson"
  /\ UNCHANGED <<rpc, returned, sent, eresult, apiRequests, apiOutcome, apiBody, path1,
                 transcript, path2, domTranscript, buttonLookups, clicks, timers,
                 segmentReads, timersFired, timerDue>>
  /\ UNCHANGED <<chunkVars, translateVars, pageVars, dom, renders, restVars>>

\* content.ts:122, 137-140: the body is not JSON.
ApiJsonRejects ==
  /\ epc = "apiJson"
  /\ UNCHANGED timersFired
  /\ apiOutcome' = "notJson"
  /\ AfterPlayerAPI(Null)
  /\ UNCHANGED <<rpc, returned, sent, apiRequests, apiBody>>
  /\ UNCHANGED <<chunkVars, translateVars, pageVars, dom, renders, restVars>>

\* content.ts:122-136: the body is parsed.
ApiJsonResolves(body) ==
  /\ epc = "apiJson"
  /\ UNCHANGED timersFired
  /\ apiOutcome' = "body"
  /\ apiBody' = body
  /\ AfterPlayerAPI(PlayerApiResult(body))
  /\ UNCHANGED <<rpc, returned, sent, apiRequests>>
  /\ UNCHANGED <<chunkVars, translateVars, pageVars, dom, renders, restVars>>

\* The page, once the button is clicked, shows or hides the panel and fills
\* in segments while the settle delay runs.
PageRenders(panel, segments) ==
  /\ epc = "settle"
  /\ renders < MaxRenders
  /\ renders' = renders + 1
  /\ dom' = [dom EXCEPT !.panel = panel, !.segments = segments]
  /\ dom' # dom
  /\ UNCHANGED <<chunkVars, translateVars, pageVars, extractVars, restVars>>

\* content.ts:149, 163-180: the settle delay has elapsed.
SettleElapsed ==
  /\ epc = "settle"
  /\ timersFired' = timersFired + 1
  /\ UNCHANGED <<rpc, returned, sent, apiRequests, apiOutcome, apiBody, path1,
                 transcript, buttonLookups, clicks, timers, timerDue>>
  /\ ReadSegments
  /\ UNCHANGED <<chunkVars, translateVars, pageVars, dom, renders, restVars>>

\* content.ts:23-26
RouterThen ==
  /\ rpc = "working"
  /\ epc = "done"
  /\ sent' = Append(sent, [success |-> TRUE, transcript |-> eresult.value, error |-> ""])
  /\ rpc' = "responded"
  /\ UNCHANGED <<epc, eresult, apiRequests, apiOutcome, apiBody, path1, transcript,
                 path2, domTranscript, buttonLookups, clicks, timers, segmentReads,
                 timersFired, timerDue, returned>>
  /\ UNCHANGED <<chunkVars, translateVars, pageVars, dom, renders, restVars>>

\* content.ts:27-32
RouterCatch ==
  /\ rpc = "working"
  /\ epc = "failed"
  /\ sent' = Append(sent, [success |-> FALSE, transcript |-> <<>>,
                           error |-> IF eresult.error # "" THEN eresult.error
                                     ELSE FailedToExtract])
  /\ rpc' = "responded"
  /\ UNCHANGED <<epc, eresult, apiRequests, apiOutcome, apiBody, path1, transcript,
                 path2, domTranscript, buttonLookups, clicks, timers, segmentReads,
                 timersFired, timerDue, returned>>
  /\ UNCHANGED <<chunkVars, translateVars, pageVars, dom, renders, restVars>>

NextExtract ==
  \/ OnGetTranscriptMessage
  \/ ApiFetchRejects
  \/ ApiFetchNotOk
  \/ ApiFetchOk
  \/ ApiJsonRejects
  \/ \E body \in TimedTextBodies : ApiJsonResolves(body)
  \/ \E panel \in Panels, segments \in SegmentLists : PageRenders(panel, segments)
  \/ SettleElapsed
  \/ RouterThen
  \/ RouterCatch

SpecExtract == InitExtract /\ [][NextExtract]_vars

\* ------------------------------------------------------------------------
\* The flattening of a timed-text body on its own: every events list of
\* EventLists, one parse.
\* ------------------------------------------------------------------------
InitFlatten ==
  /\ text = <<>>
  /\ chunks = <<>>
  /\ cpc = "ready"
  /\ TranslateIdle
  /\ PageIdle
  /\ rpc = "idle" /\ sent = <<>> /\ epc = "idle" /\ eresult = Pending
  /\ apiRequests = <<>> /\ apiOutcome = "none"
  /\ path1 = "notStarted" /\ transcript = Null
  /\ path2 = "notStarted" /\ domTranscript = Null
  /\ buttonLookups = 0 /\ clicks = <<>> /\ timers = 0 /\ segmentReads = 0
  /\ timersFired = 0 /\ timerDue = 0 /\ returned = "none"
  /\ RestIdle
  /\ \E events \in EventLists :
       apiBody = TimedTextBody(FALSE, TRUE, TRUE, events)

\* content.ts:120-136: the response was ok and its body parsed; the function
\* returns what the body flattens to.
FlattenTimedText ==
  /\ path1 = "notStarted"
  /\ apiOutcome' = "body"
  /\ transcript' = PlayerApiResult(apiBody)
  /\ path1' = "returned"
  /\ UNCHANGED <<chunkVars, translateVars, pageVars, dom, renders, restVars>>
  /\ UNCHANGED <<rpc, returned, sent, epc, eresult, apiRequests, apiBody, path2,
                 domTranscript, buttonLookups, clicks, timers, segmentReads,
                 timersFired, timerDue>>

NextFlatten == FlattenTimedText

SpecFlatten == InitFlatten /\ [][NextFlatten]_vars

\* ------------------------------------------------------------------------
\* The router's enhanceTranscript request and enhanceTranscriptWithAI: one
\* request, the summarisation endpoint answering in any of the ways it can.
\* ------------------------------------------------------------------------
InitEnhance ==
  /\ text = <<>>
  /\ chunks = <<>>
  /\ cpc = "ready"
  /\ TranslateIdle
  /\ targetLang = "es"
  /\ PageIdle
  /\ ExtractIdle
  /\ request = "enhanceTranscript"
  /\ EnhanceIdle
  /\ SideIdle

\* content.ts:37-51, 187-202: the listener takes an enhanceTranscript request,
\* enhanceTranscriptWithAI issues its fetch, and the listener returns true.
OnEnhanceMessage(transcriptText) ==
  /\ request = "enhanceTranscript"
  /\ rpc = "idle"
  /\ rpc' = "working"
  /\ returned' = "true"
  /\ hRequests' = Append(hRequests, EnhanceRequest(transcriptText))
  /\ hpc' = "fetch"
  /\ UNCHANGED <<hresult, hResponse, hsent, request, sideVars, sent, extractRunVars>>
  /\ UNCHANGED <<chunkVars, translateVars, pageVars, dom, renders>>

\* content.ts:189, 230-233: the fetch rejects.
EnhanceFetchRejects ==
  /\ hpc = "fetch"
  /\ hresult' = ERejected(FailedToFetch)
  /\ hpc' = "failed"
  /\ UNCHANGED <<hRequests, hResponse, hsent, request, sideVars, extractVars>>
  /\ UNCHANGED <<chunkVars, translateVars, pageVars, dom, renders>>

\* content.ts:204-222: the response arrives; a 429 and a 503 throw at once,
\* any other failure awaits response.text(), a success awaits
\* response.json().
EnhanceFetchResolves(status, reset) ==
  /\ hpc = "fetch"
  /\ hResponse' = [NoResponse EXCEPT !.status = status, !.reset = reset]
  /\ IF ~StatusOk(status)
     THEN IF status = 429
          THEN /\ hresult' = ERejected(RateLimitMessage(reset))
               /\ hpc' = "failed"
          ELSE IF status = 503
          THEN /\ hresult' = ERejected(ModelLoading)
               /\ hpc' = "failed"
          ELSE /\ hpc' = "text"
               /\ UNCHANGED hresult
     ELSE /\ hpc' = "json"
          /\ UNCHANGED hresult
  /\ UNCHANGED <<hRequests, hsent, request, sideVars, extractVars>>
  /\ UNCHANGED <<chunkVars, translateVars, pageVars, dom, renders>>

\* content.ts:218-219
EnhanceTextResolves(errorText) ==
  /\ hpc = "text"
  /\ hResponse' = [hResponse EXCEPT !.read = "text", !.text = errorText]
  /\ hresult' = ERejected(ApiErrorMessage(hResponse.status, errorText))
  /\ hpc' = "failed"
  /\ UNCHANGED <<hRequests, hsent, request, sideVars, extractVars>>
  /\ UNCHANGED <<chunkVars, translateVars, pageVars, dom, renders>>

\* content.ts:218, 230-233: reading the body fails.
EnhanceTextRejects ==
  /\ hpc = "text"
  /\ hresult' = ERejected(BodyStreamError)
  /\ hpc' = "failed"
  /\ UNCHANGED <<hRequests, hResponse, hsent, request, sideVars, extractVars>>
  /\ UNCHANGED <<chunkVars, translateVars, pageVars, dom, renders>>

\* content.ts:222-229
EnhanceJsonResolves(data) ==
  /\ hpc = "json"
  /\ hresult' = SummaryOutcome(data)
  /\ hpc' = IF SummaryOutcome(data).status = "resolved" THEN "done" ELSE "failed"
  /\ hResponse' = [hResponse EXCEPT !.read = "json", !.data = data]
  /\ UNCHANGED <<hRequests, hsent, request, sideVars, extractVars>>
  /\ UNCHANGED <<chunkVars, translateVars, pageVars, dom, renders>>

\* content.ts:222, 230-233: the body is not JSON.
EnhanceJsonRejects ==
  /\ hpc = "json"
  /\ hresult' = ERejected(NotJsonMessage)
  /\ hpc' = "failed"
  /\ UNCHANGED <<hRequests, hResponse, hsent, request, sideVars, extractVars>>
  /\ UNCHANGED <<chunkVars, translateVars, pageVars, dom, renders>>

\* content.ts:39-42
EnhanceThen ==
  /\ rpc = "working"
  /\ hpc = "done"
  /\ hsent' = Append(hsent, [success |-> TRUE, transcript |-> hresult.value,
                             error |-> <<>>])
  /\ rpc' = "responded"
  /\ UNCHANGED <<hpc, hresult, hRequests, hResponse, request, sideVars, returned, sent,
                 extractRunVars>>
  /\ UNCHANGED <<chunkVars, translateVars, pageVars, dom, renders>>

\* A catch that swallows the failure.
EnhanceCatchSilent ==
  /\ rpc = "working"
  /\ hpc = "failed"
  /\ rpc' = "responded"
  /\ UNCHANGED <<hsent, hpc, hresult, hRequests, hResponse, request, sideVars, returned,
                 sent, extractRunVars>>
  /\ UNCHANGED <<chunkVars, translateVars, pageVars, dom, renders>>

\* content.ts:43-48
EnhanceCatch ==
  /\ rpc = "working"
  /\ hpc = "failed"
  /\ hsent' = Append(hsent, [success |-> FALSE, transcript |-> Null,
                             error |-> IF ~MessageEmpty(hresult.error)
                                       THEN hresult.error
                                       ELSE FailedToEnhance])
  /\ rpc' = "responded"
  /\ UNCHANGED <<hpc, hresult, hRequests, hResponse, request, sideVars, returned, sent,
                 extractRunVars>>
  /\ UNCHANGED <<chunkVars, translateVars, pageVars, dom, renders>>

NextEnhance ==
  \/ \E transcriptText \in EnhanceInputs : OnEnhanceMessage(transcriptText)
  \/ EnhanceFetchRejects
  \/ \E status \in EnhanceStatuses, reset \in ResetHeaders :
       EnhanceFetchResolves(status, reset)
  \/ \E errorText \in ErrorTexts : EnhanceTextResolves(errorText)
  \/ EnhanceTextRejects
  \/ \E data \in SummaryBodies : EnhanceJsonResolves(data)
  \/ EnhanceJsonRejects
  \/ EnhanceThen
  \/ EnhanceCatch

SpecEnhance == InitEnhance /\ [][NextEnhance]_vars

\* ------------------------------------------------------------------------
\* The message listener: one message of any action on a page.
\* ------------------------------------------------------------------------
InitRouter ==
  /\ text = <<>>
  /\ chunks = <<>>
  /\ cpc = "ready"
  /\ TranslateIdle
  /\ targetLang = "es"
  /\ location \in [v : VParams, hl : HlParams]
  /\ htmlLang \in HtmlLangs
  /\ navigatorLanguage \in NavigatorLanguages
  /\ dom \in [buttons : ButtonFixtures, panel : Panels, segments : SegmentLists]
  /\ renders = 0
  /\ ExtractIdle
  /\ request \in {"getTranscript", "enhanceTranscript", "other"}
  /\ EnhanceIdle
  /\ SideIdle

\* content.ts:21, 37, 53: a message of no known action; the listener returns
\* false.
OnOtherMessage ==
  /\ request = "other"
  /\ returned = "none"
  /\ returned' = "false"
  /\ UNCHANGED <<rpc, sent, extractRunVars, restVars>>
  /\ UNCHANGED <<chunkVars, translateVars, pageVars, dom, renders>>

NextRouter ==
  \/ NextExtract
  \/ NextEnhance
  \/ OnOtherMessage

\* The callbacks of a settled promise run: the microtask queue is drained.
RouterFairness ==
  /\ WF_vars(RouterThen)
  /\ WF_vars(RouterCatch)
  /\ WF_vars(EnhanceThen)
  /\ WF_vars(EnhanceCatch)

SpecRouter == InitRouter /\ [][NextRouter]_vars /\ RouterFairness

\* ------------------------------------------------------------------------
\* The language detector on its own: every combination of the three signals,
\* one call.
\* ------------------------------------------------------------------------
InitLanguage ==
  /\ text = <<>>
  /\ chunks = <<>>
  /\ cpc = "ready"
  /\ TranslateIdle
  /\ targetLang = "es"
  /\ location \in [v : {Null}, hl : LanguageSignals]
  /\ htmlLang \in LanguageSignals
  /\ navigatorLanguage \in LanguageSignals
  /\ dom = [buttons |-> <<>>, panel |-> "absent", segments |-> <<>>]
  /\ renders = 0
  /\ ExtractIdle
  /\ RestIdle

\* utils.ts:20-34
CallGetYouTubeLanguage ==
  /\ lpc = "ready"
  /\ language' = getYouTubeLanguage(location.hl, htmlLang, navigatorLanguage)
  /\ lpc' = "detected"
  /\ UNCHANGED <<expectedLabel, located, pass, request, enhanceVars, packVars,
                 popupVars>>
  /\ UNCHANGED <<chunkVars, translateVars, pageVars, dom, renders, extractVars>>

NextLanguage == CallGetYouTubeLanguage

SpecLanguage == InitLanguage /\ [][NextLanguage]_vars

\* ------------------------------------------------------------------------
\* The button locator on its own: a page with up to MaxButtons labelled
\* buttons, or a page of one of the table's languages, one call.
\* ------------------------------------------------------------------------
InitLocator ==
  /\ text = <<>>
  /\ chunks = <<>>
  /\ cpc = "ready"
  /\ TranslateIdle
  /\ targetLang = "es"
  /\ htmlLang = Str(<<"e", "n", "-", "U", "S">>)
  /\ navigatorLanguage = Str(<<"e", "n", "-", "U", "S">>)
  /\ \/ /\ location \in [v : {Null}, hl : LocatorHls]
        /\ dom \in [buttons : SeqsUpTo(LabelPool, MaxButtons),
                    panel : {"absent"}, segments : {<<>>}]
     \/ \E key \in DOMAIN TRANSCRIPT_BUTTON_LABELS :
          /\ location = [v |-> Null, hl |-> Str(key)]
          /\ dom \in [buttons : KeyFixtures(key),
                      panel : {"absent"}, segments : {<<>>}]
  /\ renders = 0
  /\ ExtractIdle
  /\ RestIdle

\* youtube-utils.ts:59-109
CallGetTranscriptButton ==
  /\ lpc = "ready"
  /\ language' = getYouTubeLanguage(location.hl, htmlLang, navigatorLanguage)
  /\ expectedLabel' = ExpectedLabel(language')
  /\ located' = getTranscriptButton(dom.buttons, language')
  /\ pass' = LocatorPass(dom.buttons, language')
  /\ lpc' = "located"
  /\ UNCHANGED <<request, enhanceVars, packVars,
                 popupVars>>
  /\ UNCHANGED <<chunkVars, translateVars, pageVars, dom, renders, extractVars>>

NextLocator == CallGetTranscriptButton

SpecLocator == InitLocator /\ [][NextLocator]_vars

\* ------------------------------------------------------------------------
\* The chunker step by step: every text up to MaxLen, one call, one step per
\* iteration of the sentence loop.
\* ------------------------------------------------------------------------
InitPack ==
  /\ text \in Texts
  /\ chunks = <<>>
  /\ cpc = "ready"
  /\ TranslateIdle
  /\ targetLang = "es"
  /\ PageIdle
  /\ ExtractIdle
  /\ RestIdle

\* utils.ts:45-50
StartChunking ==
  /\ cpc = "ready"
  /\ cpc' = "loop"
  /\ sentences' = SplitSentences(text)
  /\ chunks' = <<>>
  /\ currentChunk' = <<>>
  /\ UNCHANGED <<text, runningBefore, countBefore, unit>>
  /\ UNCHANGED <<translateVars, pageVars, dom, renders, extractVars, request,
                 enhanceVars, locatorVars, popupVars>>

\* utils.ts:52-87: one iteration of the sentence loop.
SentenceIteration ==
  /\ cpc = "loop"
  /\ sentences # <<>>
  /\ LET after == SentenceStep([chunks |-> chunks, currentChunk |-> currentChunk],
                               Head(sentences))
     IN /\ chunks' = after.chunks
        /\ currentChunk' = after.currentChunk
  /\ runningBefore' = currentChunk
  /\ countBefore' = Len(chunks)
  /\ unit' = Str(Trim(Head(sentences)))
  /\ sentences' = Tail(sentences)
  /\ UNCHANGED <<text, cpc>>
  /\ UNCHANGED <<translateVars, pageVars, dom, renders, extractVars, request,
                 enhanceVars, locatorVars, popupVars>>

\* utils.ts:89-93: the loop is over.
FinishChunking ==
  /\ cpc = "loop"
  /\ sentences = <<>>
  /\ chunks' = ReturnChunks(IF currentChunk # <<>>
                            THEN Append(chunks, Trim(currentChunk))
                            ELSE chunks, text)
  /\ cpc' = "done"
  /\ UNCHANGED <<text, packVars>>
  /\ UNCHANGED <<translateVars, pageVars, dom, renders, extractVars, request,
                 enhanceVars, locatorVars, popupVars>>

NextPack ==
  \/ StartChunking
  \/ SentenceIteration
  \/ FinishChunking

SpecPack == InitPack /\ [][NextPack]_vars

\* ------------------------------------------------------------------------
\* One click in the popup: the tab query, the getTranscript message to the
\* content script of the tab, and the translation of the transcript.
\* ------------------------------------------------------------------------
InitPipeline ==
  /\ text = <<>>
  /\ chunks = <<>>
  /\ cpc = "ready"
  /\ TranslateIdle
  /\ targetLang = "es"
  /\ tab \in Tabs
  /\ IF tab.url = Str(WatchUrl)
     THEN /\ location \in [v : VParams, hl : HlParams]
          /\ dom \in [buttons : ButtonFixtures, panel : Panels,
                      segments : SegmentLists]
     ELSE /\ location = [v |-> Null, hl |-> Null]
          /\ dom = [buttons |-> <<>>, panel |-> "absent", segments |-> <<>>]
  /\ htmlLang \in HtmlLangs
  /\ navigatorLanguage \in NavigatorLanguages
  /\ renders = 0
  /\ ExtractIdle
  /\ request = "none"
  /\ EnhanceIdle
  /\ LocatorIdle
  /\ PackIdle
  /\ ppc = "idle"
  /\ statusLog = <<>>
  /\ disabled = FALSE
  /\ shown = Null

\* popup.ts:89-95: the catch and the finally of the click handler.
PopupCatch(errorMessage) ==
  /\ statusLog' = Append(statusLog, [type |-> "error", message |-> errorMessage])
  /\ disabled' = FALSE
  /\ ppc' = "done"

\* popup.ts:41-50: the click, up to the tab query.
ClickGetTranscript ==
  /\ ppc = "idle"
  /\ statusLog' = Append(statusLog, [type |-> "info", message |-> GettingTranscript])
  /\ disabled' = TRUE
  /\ ppc' = "query"
  /\ UNCHANGED <<tab, shown, request, enhanceVars, locatorVars, packVars>>
  /\ UNCHANGED <<chunkVars, translateVars, pageVars, dom, renders, extractVars>>

\* popup.ts:47-67: the tab query resolves; the message is sent unless the tab
\* has no id or is no video page.
TabQueryResolves ==
  /\ ppc = "query"
  /\ IF ~tab.hasId
     THEN PopupCatch(NoActiveTab) /\ UNCHANGED request
     ELSE IF ~IsVideoPage(tab.url)
     THEN PopupCatch(NotAVideoPage) /\ UNCHANGED request
     ELSE /\ request' = "getTranscript"
          /\ ppc' = "sendMessage"
          /\ UNCHANGED <<statusLog, disabled>>
  /\ UNCHANGED <<tab, shown, enhanceVars, locatorVars, packVars>>
  /\ UNCHANGED <<chunkVars, translateVars, pageVars, dom, renders, extractVars>>

\* popup.ts:62, 89-95: no listener took the message.
SendMessageRejects ==
  /\ ppc = "sendMessage"
  /\ rpc = "idle"
  /\ request' = "none"
  /\ PopupCatch(NoReceivingEnd)
  /\ UNCHANGED <<tab, shown, enhanceVars, locatorVars, packVars>>
  /\ UNCHANGED <<chunkVars, translateVars, pageVars, dom, renders, extractVars>>

\* popup.ts:62-84: the response arrives; a failure is thrown to the catch, a
\* success starts translateText, which runs up to its first await.
ResponseArrives ==
  /\ ppc = "sendMessage"
  /\ rpc = "responded"
  /\ LET response == sent[1]
     IN IF ~response.success
        THEN /\ PopupCatch(ResponseError(response))
             /\ UNCHANGED <<chunkVars, translateVars>>
        ELSE /\ statusLog' = Append(statusLog, [type |-> "info",
                                                message |-> TranslatingTranscript])
             /\ text' = response.transcript
             /\ BeginTranslate(text')
             /\ ppc' = "translating"
             /\ UNCHANGED disabled
  /\ UNCHANGED <<tab, shown, request, enhanceVars, locatorVars, packVars>>
  /\ UNCHANGED <<pageVars, dom, renders, extractVars>>

\* popup.ts:81-88, 93-95: translateText resolved.
TranslationShown ==
  /\ ppc = "translating"
  /\ tpc = "done"
  /\ shown' = Str(tresult.value)
  /\ statusLog' = Append(statusLog, [type |-> "success",
                                     message |-> TranslationComplete])
  /\ disabled' = FALSE
  /\ ppc' = "done"
  /\ UNCHANGED <<tab, request, enhanceVars, locatorVars, packVars>>
  /\ UNCHANGED <<chunkVars, translateVars, pageVars, dom, renders, extractVars>>

\* popup.ts:81, 89-95: translateText rejected.
TranslationRejected ==
  /\ ppc = "translating"
  /\ tpc = "failed"
  /\ PopupCatch(tresult.error)
  /\ UNCHANGED <<tab, shown, request, enhanceVars, locatorVars, packVars>>
  /\ UNCHANGED <<chunkVars, translateVars, pageVars, dom, renders, extractVars>>

NextPipeline ==
  \/ ClickGetTranscript
  \/ TabQueryResolves
  \/ SendMessageRejects
  \/ ResponseArrives
  \/ TranslationShown
  \/ TranslationRejected
  \/ NextExtract
  \/ FetchRejects
  \/ FetchResolves
  \/ JsonRejects
  \/ \E data \in TranslateBodies : JsonResolves(data)

SpecPipeline == InitPipeline /\ [][NextPipeline]_vars

\* ------------------------------------------------------------------------
\* Properties of smartChunkText (checked under SpecChunk).
\* ------------------------------------------------------------------------

\* A chunk that is one word: no whitespace inside.
SingleWord(chunk) == \A k \in 1..Len(chunk) : chunk[k] \notin Whitespace

\* C1: every chunk smartChunkText returns is at most MAX_CHUNK_SIZE long,
\* except a chunk that is one whitespace-free word longer than that.
C1_ChunksBounded ==
  cpc = "done" =>
    \A i \in 1..Len(chunks) :
      Len(chunks[i]) <= MAX_CHUNK_SIZE \/ SingleWord(chunks[i])

\* The non-whitespace characters of a string, in order.
NonWhitespace(s) == SelectSeq(s, LAMBDA c : c \notin Whitespace)

\* C2: the chunks joined with single spaces hold the non-whitespace
\* characters of the input, all of them, once each and in the same order.
C2_RejoinReconstructs ==
  cpc = "done" =>
    NonWhitespace(Join(chunks, <<" ">>)) = NonWhitespace(text)

\* C3: smartChunkText never returns an empty array; when its loop produced
\* no chunk (the empty input among others) it returns the input as the one
\* chunk.
C3_NeverEmpty ==
  cpc = "done" =>
    /\ Len(chunks) >= 1
    /\ (text = <<>> \/ LoopChunks(text) = <<>>) => chunks = <<text>>

\* C3's case: a non-empty input on which the loop produced no chunk.
C3_Witness ==
  /\ cpc = "done"
  /\ text # <<>>
  /\ LoopChunks(text) = <<>>
  /\ chunks = <<text>>

\* ------------------------------------------------------------------------
\* Properties of translateText (checked under SpecTranslate).
\* ------------------------------------------------------------------------

\* The body has the shape the endpoint documents: data[0][0][0] is a string.
WellFormedBody(data) ==
  /\ ~SegmentThrows(data)
  /\ FirstSegment(data).t = "string"

RequestSucceeded(r) == r.kind = "json" /\ WellFormedBody(r.data)

AllSucceeded == \A i \in 1..Len(responses) : RequestSucceeded(responses[i])

\* C4: when every request succeeded, there was one request per chunk, in
\* chunk order, and the result is the first segments of the responses joined
\* with single spaces in that order.
C4_OrderedJoin ==
  (cpc = "done" /\ AllSucceeded /\ Len(responses) = Len(chunks)) =>
    /\ tpc = "done"
    /\ requests = [i \in 1..Len(chunks) |-> TranslateRequest(chunks[i], targetLang)]
    /\ tresult = Resolved(Join([i \in 1..Len(responses) |->
                                  FirstSegment(responses[i].data).s], <<" ">>))

\* C4's case: two chunks answered "x" then "y" give "x y".
C4_Witness ==
  /\ tpc = "done"
  /\ Len(chunks) = 2
  /\ Len(requests) = 2
  /\ FirstSegment(responses[1].data) = JStr(<<"x">>)
  /\ FirstSegment(responses[2].data) = JStr(<<"y">>)
  /\ tresult = Resolved(<<"x", " ", "y">>)

\* C5: a request that fails (network error, body that is not JSON, body of
\* another shape) ends the call: it is the last request, and the call
\* rejects with the translation-failed error.
C5_FailureAborts ==
  \A i \in 1..Len(responses) :
    ~RequestSucceeded(responses[i]) =>
      /\ tpc = "failed"
      /\ tresult = Rejected(TranslationFailed)
      /\ Len(requests) = i

\* C6: at most one request is unanswered at any time, and the request of
\* chunk i+1 is issued only once the response of chunk i has been parsed.
C6_Sequential ==
  /\ Len(requests) - Len(responses) <= 1
  /\ Len(requests) <= Len(translatedChunks) + 1

\* C6's case: the second request is out, the first response is parsed.
C6_Witness ==
  /\ tpc = "fetch"
  /\ Len(requests) = 2
  /\ Len(translatedChunks) = 1

\* ------------------------------------------------------------------------
\* Properties of getYouTubeTranscript (checked under SpecExtract).
\* ------------------------------------------------------------------------

\* Neither retrieval path has done anything.
NoPathAttempted ==
  /\ apiRequests = <<>>
  /\ path1 = "notStarted"
  /\ path2 = "notStarted"
  /\ buttonLookups = 0
  /\ clicks = <<>>
  /\ timers = 0
  /\ segmentReads = 0

\* C7: without a v parameter, or with an empty one, getYouTubeTranscript
\* fails with the missing-video-id error and attempts neither path: no
\* timed-text request, no button lookup, no click, no settle delay.
C7_MissingVideoId ==
  (rpc # "idle" /\ ~Truthy(location.v)) =>
    /\ epc = "failed"
    /\ eresult = Rejected(MissingVideoId)
    /\ NoPathAttempted

\* C7's case: the request came in on a page whose v parameter is empty.
C7_Witness ==
  /\ rpc # "idle"
  /\ location.v = Str(<<>>)
  /\ eresult = Rejected(MissingVideoId)

\* The DOM path has done something.
DomPathStarted ==
  \/ path2 # "notStarted"
  \/ buttonLookups > 0
  \/ clicks # <<>>
  \/ timers > 0
  \/ segmentReads > 0

\* C8: the DOM path starts only once the first path has returned, and it
\* runs exactly when the first path returned no text: a transcript from the
\* first path is the result and no button is clicked; a transport error, a
\* non-success status, a body that is not JSON or lacks the fields is not
\* surfaced, the DOM path runs instead.
C8_FallbackOrder ==
  /\ DomPathStarted => path1 = "returned"
  /\ path1 = "returned" => (DomPathStarted <=> ~Truthy(transcript))
  /\ (path1 = "returned" /\ Truthy(transcript)) =>
       /\ clicks = <<>>
       /\ eresult = Resolved(transcript.s)
  /\ (apiOutcome \in {"networkError", "httpError", "notJson"}
        \/ (apiOutcome = "body" /\ (apiBody.isNull \/ ~apiBody.hasEvents
                                      \/ ~apiBody.eventsIsArray))) =>
       /\ buttonLookups = 1
       /\ path2 = "pending" => eresult = Pending
       /\ eresult.status = "rejected" => path2 = "returned"

\* C8's case: the first path returned a transcript and the call resolved
\* with it, the page's transcript button left alone.
C8_Witness ==
  /\ path1 = "returned"
  /\ Truthy(transcript)
  /\ getTranscriptButton(dom.buttons,
       getYouTubeLanguage(location.hl, htmlLang, navigatorLanguage)) # 0
  /\ clicks = <<>>
  /\ epc = "done"

\* C9: with a video id, when both paths returned nothing the call fails with
\* the not-available error, and that error comes only after both paths have
\* returned.
C9_NotAvailable ==
  /\ (path1 = "returned" /\ ~Truthy(transcript)
        /\ path2 = "returned" /\ ~Truthy(domTranscript)) =>
       /\ epc = "failed"
       /\ eresult = Rejected(NotAvailable)
  /\ eresult.status = "rejected" =>
       \/ eresult = Rejected(MissingVideoId) /\ ~Truthy(location.v)
       \/ /\ eresult = Rejected(NotAvailable)
          /\ Truthy(location.v)
          /\ path1 = "returned"
          /\ path2 = "returned"

\* C9's case: the timed-text call answered with an HTTP error, there is no
\* transcript button and no panel.
C9_Witness ==
  /\ apiOutcome = "httpError"
  /\ buttonLookups = 1
  /\ clicks = <<>>
  /\ dom.panel = "absent"
  /\ eresult = Rejected(NotAvailable)

\* A string with a character that is not whitespace.
HasText(str) == Trim(str) # <<>>

\* C10: a transcript that getYouTubeTranscript resolves with, and one that
\* the router sends with success, is never empty; a path whose text is empty
\* or whitespace-only returns nothing.
C10_NonEmptyTranscript ==
  /\ epc = "done" => (eresult.status = "resolved" /\ HasText(eresult.value))
  /\ \A i \in 1..Len(sent) : sent[i].success => HasText(sent[i].transcript)
  /\ path1 = "returned" => (transcript.isNull \/ HasText(transcript.s))
  /\ path2 = "returned" => (domTranscript.isNull \/ HasText(domTranscript.s))

\* C10's case: the first path's events hold whitespace only, which counted
\* as no result, and the router sent the transcript read from the page.
C10_Witness ==
  /\ apiOutcome = "body"
  /\ apiBody.eventsIsArray
  /\ EventTexts(apiBody.events) # <<>>
  /\ transcript.isNull
  /\ Len(sent) = 1
  /\ sent[1].success
  /\ sent[1].transcript = domTranscript.s


\* ------------------------------------------------------------------------
\* Properties of the flattening in getTranscriptFromPlayerAPI.
\* ------------------------------------------------------------------------
\* The utf8 texts of an event's segs, concatenated.
RECURSIVE ConcatAll(_)
ConcatAll(parts) ==
  IF parts = <<>> THEN <<>> ELSE Head(parts) \o ConcatAll(Tail(parts))

\* The events that have segs, in order.
WithSegs(events) == SelectSeq(events, LAMBDA e : e.hasSegs)

\* The concatenated texts of the events that have segs, one space between
\* two events.
RECURSIVE SpacedEvents(_)
SpacedEvents(events) ==
  IF events = <<>> THEN <<>>
  ELSE IF Len(events) = 1 THEN ConcatAll(events[1].segs)
  ELSE ConcatAll(events[1].segs) \o <<" ">> \o SpacedEvents(Tail(events))

\* The maximal runs of non-whitespace characters of s, in order; word is the
\* run being read.
RECURSIVE WordsFrom(_, _)
WordsFrom(s, word) ==
  IF s = <<>> THEN (IF word = <<>> THEN <<>> ELSE <<word>>)
  ELSE IF Head(s) \in Whitespace
    THEN (IF word = <<>> THEN <<>> ELSE <<word>>) \o WordsFrom(Tail(s), <<>>)
  ELSE WordsFrom(Tail(s), Append(word, Head(s)))

\* The words of the events' texts, one space between two words: every run of
\* whitespace replaced by one space, none left at either end.
Flattened(events) == Join(WordsFrom(SpacedEvents(WithSegs(events)), <<>>), <<" ">>)

NoWhitespaceRun(s) ==
  /\ \A i \in 1..(Len(s) - 1) : ~(s[i] \in Whitespace /\ s[i + 1] \in Whitespace)
  /\ s # <<>> => (s[1] \notin Whitespace /\ s[Len(s)] \notin Whitespace)

ParsedEvents == path1 = "returned" /\ apiOutcome = "body" /\ apiBody.eventsIsArray

\* C11 as stated: for a body with an events list getTranscriptFromPlayerAPI
\* returns the string its events flatten to, whatever that string is.
C11_ReturnsFlattenedString ==
  ParsedEvents => transcript = Str(Flattened(apiBody.events))

\* C11: for a body with an events list getTranscriptFromPlayerAPI returns the
\* string its events flatten to (texts of an event concatenated, events that
\* have segs joined by spaces, whitespace runs collapsed, trimmed) when that
\* string is not empty, and null when it is empty; a returned string has no
\* two consecutive whitespace characters and none at either end.
C11_Flattening ==
  ParsedEvents =>
    /\ Flattened(apiBody.events) # <<>> =>
         transcript = Str(Flattened(apiBody.events))
    /\ Flattened(apiBody.events) = <<>> => transcript = Null
    /\ ~transcript.isNull => (transcript.s # <<>> /\ NoWhitespaceRun(transcript.s))

\* The events "Hello " and "world" came back as "Hello world".
C11_Witness ==
  /\ ParsedEvents
  /\ apiBody.events = << Event(<< <<"H", "e", "l", "l", "o", " ">> >>),
                         Event(<< <<"w", "o", "r", "l", "d">> >>) >>
  /\ transcript = Str(<<"H", "e", "l", "l", "o", " ", "w", "o", "r", "l", "d">>)


\* ------------------------------------------------------------------------
\* Properties of the message listener (checked under SpecRouter).
\* ------------------------------------------------------------------------
Recognised == request \in {"getTranscript", "enhanceTranscript"}

\* The calls of sendResponse for the message.
Responses == Len(sent) + Len(hsent)

\* The promise the listener waits on has settled.
WorkSettled ==
  \/ request = "getTranscript" /\ epc \in {"done", "failed"}
  \/ request = "enhanceTranscript" /\ hpc \in {"done", "failed"}

RespondsAtMostOnce ==
  Recognised =>
    /\ rpc # "idle" => returned = "true"
    /\ Responses <= 1
    /\ Responses = 1 => WorkSettled
    /\ rpc = "responded" => Responses = 1

\* C12: for a getTranscript or enhanceTranscript message the listener returns
\* true, sendResponse is called at most once and only after the work has
\* settled, and once the work has settled it is called.
C12_RespondsOnce ==
  /\ []RespondsAtMostOnce
  /\ (Recognised /\ WorkSettled) ~> (Responses = 1)

\* A failed enhancement was answered with one failure response.
C12_Witness ==
  /\ request = "enhanceTranscript"
  /\ returned = "true"
  /\ hpc = "failed"
  /\ Len(hsent) = 1
  /\ ~hsent[1].success


\* ------------------------------------------------------------------------
\* Properties of enhanceTranscriptWithAI (checked under SpecEnhance).
\* ------------------------------------------------------------------------
EnhanceSettled == hpc \in {"done", "failed"}

\* The pieces are a time of day: digits around two colons.
IsTimeOfDay(pieces) ==
  /\ Cardinality({i \in 1..Len(pieces) : pieces[i] = ":"}) = 2
  /\ \A i \in 1..Len(pieces) : pieces[i] = ":" \/ pieces[i] \in DOMAIN DigitValue

\* The message is the rate-limit message with a retry time.
RateLimitedWithTime(message) ==
  /\ Len(message) > 2
  /\ message[1] = "Rate limit exceeded. "
  /\ message[2] = "Try again after "
  /\ IsTimeOfDay(SubSeq(message, 3, Len(message)))

HeaderPresent == ~hResponse.reset.isNull

HeaderIsNumber ==
  /\ HeaderPresent
  /\ hResponse.reset.s # <<>>
  /\ hResponse.reset.s[1] \in DOMAIN DigitValue

\* One POST to the endpoint per call.
OneRequest ==
  hpc # "idle" =>
    /\ Len(hRequests) = 1
    /\ hRequests[1].url = HF_ENDPOINT
    /\ hRequests[1].method = "POST"
    /\ hRequests[1].inputs \in EnhanceInputs

\* The statuses that need no body: 503, and a 429 without the header.
NoBodyStatuses ==
  /\ (EnhanceSettled /\ hResponse.status = 503) =>
       hresult = ERejected(<<"Model is loading. Please wait 20 seconds and try again">>)
  /\ (EnhanceSettled /\ hResponse.status = 429 /\ ~HeaderPresent) =>
       hresult = ERejected(<<"Rate limit exceeded. ", "Try again later">>)

\* The statuses whose outcome is read from the body, when the body can be
\* read and, for a success, has a first entry.
BodyStatuses ==
  /\ (EnhanceSettled /\ hResponse.status = 500 /\ hResponse.read = "text") =>
       hresult = ERejected(<<"API error: ", "500", " - ", hResponse.text>>)
  /\ (EnhanceSettled /\ hResponse.status = 404 /\ hResponse.read = "text") =>
       hresult = ERejected(<<"API error: ", "404", " - ", hResponse.text>>)
  /\ (EnhanceSettled /\ hResponse.status = 200 /\ hResponse.read = "json"
        /\ ~hResponse.data.isNull /\ hResponse.data.entries # <<>>
        /\ hResponse.data.entries[1].hasSummary) =>
       hresult = EResolved(Str(hResponse.data.entries[1].summary_text))
  /\ hpc = "done" => (hResponse.status = 200 /\ hResponse.read = "json")

NonEmpty(signal) == ~signal.isNull /\ signal.s # <<>>

\* The signal that decides: the first non-empty one of hl, lang and the
\* browser locale, "en" when there is none.
DecidingSignal ==
  IF NonEmpty(location.hl) THEN location.hl.s
  ELSE IF NonEmpty(htmlLang) THEN htmlLang.s
  ELSE IF NonEmpty(navigatorLanguage) THEN navigatorLanguage.s
  ELSE <<"e", "n">>

\* s up to its first "-", in lower case.
WithoutRegion(s) ==
  LET dashes == {i \in 1..Len(s) : s[i] = "-"}
  IN toLowerCase(SubSeq(s, 1, IF dashes = {} THEN Len(s) ELSE Min(dashes) - 1))

\* C14: getYouTubeLanguage returns, for every combination of signals, the
\* first non-empty one of the hl parameter, the lang attribute and the browser
\* locale ("en" when none), cut at its first "-" and lower-cased; hl=fr-CA
\* gives "fr" whatever the lang attribute, lang=de-DE without hl gives "de".
C14_PriorityOrder ==
  lpc = "detected" =>
    /\ language = WithoutRegion(DecidingSignal)
    /\ location.hl = Str(<<"f", "r", "-", "C", "A">>) => language = <<"f", "r">>
    /\ (~NonEmpty(location.hl) /\ htmlLang = Str(<<"d", "e", "-", "D", "E">>)) =>
         language = <<"d", "e">>
    /\ (~NonEmpty(location.hl) /\ ~NonEmpty(htmlLang)
          /\ ~NonEmpty(navigatorLanguage)) => language = <<"e", "n">>

\* hl=fr-CA decided against the lang attribute de-DE.
C14_Witness ==
  /\ lpc = "detected"
  /\ location.hl = Str(<<"f", "r", "-", "C", "A">>)
  /\ htmlLang = Str(<<"d", "e", "-", "D", "E">>)
  /\ language = <<"f", "r">>

LowercaseLetters ==
  {"a", "b", "c", "d", "e", "f", "g", "h", "i", "j", "k", "l", "m",
   "n", "o", "p", "q", "r", "s", "t", "u", "v", "w", "x", "y", "z"}

\* C15: whatever the three signals hold, getYouTubeLanguage returns exactly
\* two lowercase letters.
C15_TwoLetters ==
  lpc = "detected" =>
    /\ Len(language) = 2
    /\ \A i \in 1..Len(language) : language[i] \in LowercaseLetters


\* ------------------------------------------------------------------------
\* Properties of getTranscriptButton (checked under SpecLocator).
\* ------------------------------------------------------------------------
LabelEquals(i, label) == toLowerCase(dom.buttons[i]) = toLowerCase(label)
LabelContains(i, label) == Includes(toLowerCase(dom.buttons[i]), toLowerCase(label))
LabelHasKeyword(i) ==
  \E k \in 1..Len(transcriptKeywords) :
    Includes(toLowerCase(dom.buttons[i]), transcriptKeywords[k])

Buttons == 1..Len(dom.buttons)

\* located is the first button that has the property the positions of S have.
FirstOf(S) == located \in S /\ \A j \in S : located <= j

ExactButtons == {i \in Buttons : LabelEquals(i, expectedLabel)}
PartialButtons == {i \in Buttons : LabelContains(i, expectedLabel)}
KeywordButtons == {i \in Buttons : LabelHasKeyword(i)}

\* C16: getTranscriptButton returns the first button whose label equals the
\* expected label (case-insensitively) if there is one anywhere; if there is
\* none, the first whose label contains the expected label; if there is none,
\* the first whose label contains a keyword; and null only if there is none.
C16_PassesInOrder ==
  lpc = "located" =>
    /\ ExactButtons # {} => FirstOf(ExactButtons)
    /\ (ExactButtons = {} /\ PartialButtons # {}) => FirstOf(PartialButtons)
    /\ (ExactButtons = {} /\ PartialButtons = {} /\ KeywordButtons # {}) =>
         FirstOf(KeywordButtons)
    /\ located = 0 <=>
         (ExactButtons = {} /\ PartialButtons = {} /\ KeywordButtons = {})

\* The second button, an exact match, was returned although the first
\* contains the expected label and a keyword.
C16_Witness ==
  /\ lpc = "located"
  /\ Len(dom.buttons) >= 2
  /\ 1 \in PartialButtons /\ 1 \in KeywordButtons /\ 1 \notin ExactButtons
  /\ 2 \in ExactButtons
  /\ located = 2

TableKeys == DOMAIN TRANSCRIPT_BUTTON_LABELS

\* The page's interface language is a key of the table and a button carries
\* the label mapped to it.
PageOfKey(key) ==
  /\ location.hl = Str(key)
  /\ \E i \in Buttons : LabelEquals(i, TRANSCRIPT_BUTTON_LABELS[key])

\* C17: on a page whose interface language is a key of the table (zh-Hans and
\* zh-Hant among them) and that has a button with the label mapped to that
\* key, the expected label is that mapped label and the button returned is
\* the first one carrying it, found by pass 1; for a detected code the table
\* does not have the expected label is the English one.
C17_EveryKeyExact ==
  lpc = "located" =>
    /\ \A key \in TableKeys :
         PageOfKey(key) =>
           /\ expectedLabel = TRANSCRIPT_BUTTON_LABELS[key]
           /\ pass = 1
           /\ located \in Buttons
           /\ LabelEquals(located, TRANSCRIPT_BUTTON_LABELS[key])
    /\ language \notin TableKeys =>
         expectedLabel = TRANSCRIPT_BUTTON_LABELS[<<"e", "n">>]


\* ------------------------------------------------------------------------
\* Properties of getTranscriptFromDOM (checked under SpecExtract).
\* ------------------------------------------------------------------------
\* The transcript control of the page, 0 when it has none.
TranscriptControl ==
  getTranscriptButton(dom.buttons,
    getYouTubeLanguage(location.hl, htmlLang, navigatorLanguage))

\* C19: once the DOM path has started, a control that is found has been
\* clicked exactly once, one delay of 1500 ms has been started, and the
\* segments are read, once, only after that delay has elapsed; when no control
\* is found nothing is clicked and no delay is started, the segments are read
\* exactly when the panel exists and is not hidden, and otherwise the path
\* has returned null.  Before the DOM path starts nothing is clicked or read.
C19_ClickThenSettle ==
  /\ path2 = "notStarted" =>
       (clicks = <<>> /\ timers = 0 /\ timersFired = 0 /\ segmentReads = 0)
  /\ (path2 # "notStarted" /\ TranscriptControl # 0) =>
       /\ clicks = <<TranscriptControl>>
       /\ timers = 1
       /\ timerDue = 1500
       /\ segmentReads = timersFired
       /\ timersFired <= 1
       /\ path2 = "returned" <=> timersFired = 1
  /\ (path2 # "notStarted" /\ TranscriptControl = 0) =>
       /\ clicks = <<>>
       /\ timers = 0
       /\ timersFired = 0
       /\ path2 = "returned"
       /\ dom.panel = "open" => segmentReads = 1
       /\ dom.panel \in {"absent", "hidden"} =>
            (segmentReads = 0 /\ domTranscript = Null)

\* The control was clicked, the delay elapsed, and the segments were read.
C19_Witness ==
  /\ TranscriptControl # 0
  /\ clicks = <<TranscriptControl>>
  /\ timersFired = 1
  /\ segmentReads = 1
  /\ path2 = "returned"


\* ------------------------------------------------------------------------
\* Properties of the sentence loop of smartChunkText (checked under SpecPack).
\* ------------------------------------------------------------------------
\* The last iteration met a running chunk.
MetRunningChunk == cpc = "loop" /\ ~unit.isNull /\ runningBefore # <<>>

\* The last iteration closed the running chunk before its unit.
ClosedBeforeUnit ==
  /\ Len(chunks) > countBefore
  /\ chunks[countBefore + 1] = Trim(runningBefore)

\* The running chunk, a space and the unit are together at most the maximum.
UnitFits == Len(Trim(runningBefore)) + 1 + Len(unit.s) <= MAX_CHUNK_SIZE

\* The last iteration appended its unit to the running chunk.
UnitAppended ==
  /\ Len(chunks) = countBefore
  /\ Len(currentChunk) >= Len(runningBefore) + Len(unit.s)
  /\ SubSeq(currentChunk, 1, Len(runningBefore)) = runningBefore
  /\ SubSeq(currentChunk, Len(currentChunk) - Len(unit.s) + 1, Len(currentChunk))
       = unit.s

\* C20: an iteration of the sentence loop that meets a running chunk closes
\* it before its unit exactly when the running chunk, one space and the unit
\* are together longer than the maximum, and otherwise appends the unit to
\* it, also when the running chunk is the tail of a word-split sentence.
C20_GreedyPacking ==
  MetRunningChunk =>
    /\ ClosedBeforeUnit <=> ~UnitFits
    /\ UnitFits => UnitAppended


\* ------------------------------------------------------------------------
\* Properties of the click pipeline (checked under SpecPipeline).
\* ------------------------------------------------------------------------
\* The router answered the popup's message with a failure.
FailureResponse == sent # <<>> /\ ~sent[1].success

\* The popup has taken the response.
ResponseTaken == ppc \in {"translating", "done"}

\* translateText has been called.
TranslateCalled == tpc # "idle" \/ cpc # "ready" \/ requests # <<>>

\* C18: a failure response of the router carries the message the extractor
\* failed with; once the popup has taken it, the last status it shows is that
\* message as an error, and translateText was not called and no translate
\* request was issued; translateText is called only after a success response,
\* with the transcript of that response.
C18_FailureStopsPipeline ==
  /\ FailureResponse =>
       /\ eresult.status = "rejected"
       /\ sent[1].error = eresult.error
       /\ ~TranslateCalled
       /\ ResponseTaken =>
            /\ ppc = "done"
            /\ statusLog[Len(statusLog)] =
                 [type |-> "error", message |-> eresult.error]
            /\ shown = Null
  /\ TranslateCalled =>
       /\ ResponseTaken
       /\ Len(sent) = 1
       /\ sent[1].success
       /\ text = sent[1].transcript

\* The extractor failed for want of captions, and the popup shows that.
C18_Witness ==
  /\ ppc = "done"
  /\ FailureResponse
  /\ eresult = Rejected(NotAvailable)
  /\ statusLog[Len(statusLog)] = [type |-> "error", message |-> NotAvailable]
  /\ requests = <<>>


\* ------------------------------------------------------------------------
\* Blank chunks and empty queries (checked under SpecTranslate).
\* ------------------------------------------------------------------------
\* C21: for a text with a character that is not whitespace, no chunk that
\* smartChunkText returns is empty or whitespace-only, and no request that
\* translateText issues has an empty query.
C21_NoBlankChunk ==
  HasText(text) =>
    /\ cpc = "done" => \A i \in 1..Len(chunks) : HasText(chunks[i])
    /\ \A i \in 1..Len(requests) : requests[i].q # <<>>

====
